---- MODULE Spec2Model ----
(***************************************************************************)
(* Model of the dsl-go text <-> document codec and of the manager and file *)
(* store built on it.                                                      *)
(*                                                                         *)
(* A text is a sequence of units.  A unit is one character, or a block of  *)
(* characters of one lexical class written as one TLA+ string: a word (a   *)
(* letter, then letters, digits, '_' or '-') such as "entity" or           *)
(* "onboarding-request".                                                   *)
(* Digits, punctuation and whitespace are always single characters.  Every *)
(* regular expression of the lexer only looks at the class of a character, *)
(* so it matches a block exactly as it matches the characters in it.       *)
(***************************************************************************)
EXTENDS Integers, Sequences, FiniteSets, TLC

(* ------------------------------------------------------------------ *)
(* Characters                                                          *)
(* ------------------------------------------------------------------ *)
Digits == {"0", "1", "2", "3", "4", "5", "6", "7", "8", "9"}

WhitespaceChars == {" ", "\n", "\t"}

PunctChars == {"(", ")", "\"", "\\", ";", ":", "-", ">", "<", "_", ".", "%", "!", "="}

\* A word block: starts with a letter, holds only letters, digits, _ and -.
IsWord(u) == u \notin (Digits \cup WhitespaceChars \cup PunctChars)

\* [A-Za-z0-9_-]
IsIdentChar(u) == IsWord(u) \/ u \in Digits \/ u = "_" \/ u = "-"

\* The Go string a sequence of units spells.
RECURSIVE Str(_)
Str(us) == IF us = <<>> THEN "" ELSE Head(us) \o Str(Tail(us))

\* First index j >= i at which P stops holding (Len+1 when it never stops).
SpanEnd(text, i, P(_)) ==
    CHOOSE j \in i..(Len(text) + 1) :
        /\ \A k \in i..(j - 1) : P(text[k])
        /\ (j = Len(text) + 1 \/ ~P(text[j]))

\* F applied to the value of e, which is computed once.
With(e, F(_)) == F(e)

(* ------------------------------------------------------------------ *)
(* Lexer: sexprLexer, rules tried in order, first match wins           *)
(* ------------------------------------------------------------------ *)
Tok(type, value) == [type |-> type, value |-> value]

\* String: "(?:\\.|[^"])*" matched leftmost-first; the result is the index
\* after the closing quote, 0 when there is no match.  j is the position
\* after the opening quote or after the part matched so far.  Units that
\* are neither a quote nor a backslash are taken by [^"] in one step.
RECURSIVE StringEnd(_, _)
StringEnd(text, j) ==
    LET marks == { q \in j..Len(text) : text[q] = "\"" \/ text[q] = "\\" }
    IN  IF marks = {} THEN 0
        ELSE LET m == CHOOSE q \in marks : \A r \in marks : q <= r
                 c == text[m]
                 esc == IF c = "\\" /\ m + 1 <= Len(text) /\ text[m + 1] # "\n"
                        THEN StringEnd(text, m + 2) ELSE 0
             IN  IF esc # 0 THEN esc
                 ELSE LET any == IF c # "\"" THEN StringEnd(text, m + 1) ELSE 0
                      IN  IF any # 0 THEN any
                          ELSE IF c = "\"" THEN m + 1 ELSE 0

\* Number: [0-9]+(?:\.[0-9]+)?  (no sign)
NumberEnd(text, i) ==
    LET d == SpanEnd(text, i, LAMBDA u : u \in Digits)
    IN  IF d + 1 <= Len(text) /\ text[d] = "." /\ text[d + 1] \in Digits
        THEN SpanEnd(text, d + 1, LAMBDA u : u \in Digits)
        ELSE d

\* The end (exclusive) and the type of the token that starts at i;
\* type "" when no rule matches there.
MatchAt(text, i) ==
    LET c == text[i]
        n == Len(text)
    IN  IF c \in WhitespaceChars
        THEN [type |-> "Whitespace", end |-> SpanEnd(text, i, LAMBDA u : u \in WhitespaceChars)]
        ELSE IF c = ";"
        THEN [type |-> "Comment", end |-> SpanEnd(text, i + 1, LAMBDA u : u # "\n")]
        ELSE IF c = "(" THEN [type |-> "LParen", end |-> i + 1]
        ELSE IF c = ")" THEN [type |-> "RParen", end |-> i + 1]
        ELSE IF c = "-" /\ i + 1 <= n /\ text[i + 1] = ">"
        THEN [type |-> "Arrow", end |-> i + 2]
        ELSE IF c = "\"" /\ StringEnd(text, i + 1) # 0
        THEN [type |-> "String", end |-> StringEnd(text, i + 1)]
        ELSE IF c = ":" /\ i + 1 <= n /\ IsWord(text[i + 1])
        THEN [type |-> "ColonIdent", end |-> SpanEnd(text, i + 1, IsIdentChar)]
        ELSE IF IsWord(c)
        THEN [type |-> "Ident", end |-> SpanEnd(text, i, IsIdentChar)]
        ELSE IF c \in Digits
        THEN [type |-> "Number", end |-> NumberEnd(text, i)]
        ELSE [type |-> "", end |-> i]

\* The lexer runs MatchAt at 1, then at the end of each token.  The scan
\* is computed by repeated squaring: NextPos is one step, Jumps[k + 1] is
\* 2^k steps, and TokensFrom(i, k) is the tokens of the first 2^k steps
\* from i.  A position with no match, and the end of the text, stay put.
\* Each table is held as a sequence.
NextPos(text) ==
    [i \in 1..(Len(text) + 1) |->
        IF i > Len(text) \/ MatchAt(text, i).type = "" THEN i ELSE MatchAt(text, i).end]
    \o <<>>

RECURSIVE JumpTable(_, _)
JumpTable(tbl, k) ==
    IF k = 0 THEN tbl
    ELSE LET f == tbl[Len(tbl)]
         IN  JumpTable(Append(tbl, [i \in DOMAIN f |-> f[f[i]]] \o <<>>), k - 1)

RECURSIVE TokensFrom(_, _, _, _)
TokensFrom(text, jumps, i, k) ==
    IF jumps[1][i] = i THEN <<>>
    ELSE IF k = 0 THEN <<Tok(MatchAt(text, i).type, SubSeq(text, i, jumps[1][i] - 1))>>
    ELSE TokensFrom(text, jumps, i, k - 1) \o TokensFrom(text, jumps, jumps[k][i], k - 1)

\* The least k with 2^k > n
RECURSIVE Log2(_)
Log2(n) == IF n = 0 THEN 0 ELSE 1 + Log2(n \div 2)

\* The tokens of text; ok = FALSE when no rule matches at some position
\* (the lexer's "invalid input text" error).
sexprLexer(text) ==
    LET k == Log2(Len(text))
        jumps == JumpTable(<<NextPos(text)>>, k)
    IN  [ok |-> jumps[k + 1][1] = Len(text) + 1,
         toks |-> TokensFrom(text, jumps, 1, k)]

\* participle.Unquote("String"): the body of a String token with its escape
\* sequences resolved; ok = FALSE on an escape Go does not know or on a
\* backslash with nothing after it.
RECURSIVE UnquoteBody(_, _)
UnquoteBody(body, acc) ==
    IF body = <<>> THEN [ok |-> TRUE, value |-> acc]
    ELSE IF Head(body) = "\\"
    THEN IF Len(body) < 2 THEN [ok |-> FALSE, value |-> acc]
         ELSE LET e == body[2]
                  r == SubSeq(body, 3, Len(body))
              IN  IF e = "\"" \/ e = "\\" THEN UnquoteBody(r, Append(acc, e))
                  ELSE IF e = "n" THEN UnquoteBody(r, Append(acc, "\n"))
                  ELSE IF e = "t" THEN UnquoteBody(r, Append(acc, "\t"))
                  ELSE [ok |-> FALSE, value |-> acc]
    ELSE IF Head(body) = "\"" THEN [ok |-> FALSE, value |-> acc]
    ELSE UnquoteBody(Tail(body), Append(acc, Head(body)))

Unquote(value) == UnquoteBody(SubSeq(value, 2, Len(value) - 1), <<>>)

\* The token stream the parser sees: buildParser names no elided token
\* type, so Whitespace and Comment tokens stay in it; String tokens carry
\* their unquoted value.  ok = FALSE when a String does not unquote.
MapTokens(toks) ==
    [ok |-> \A j \in 1..Len(toks) : toks[j].type = "String" => Unquote(toks[j].value).ok,
     toks |-> [j \in 1..Len(toks) |->
                  IF toks[j].type = "String"
                  THEN Tok("String", Unquote(toks[j].value).value)
                  ELSE toks[j]] \o <<>>]

\* participle.Elide("Whitespace", "Comment"), the option the other parser
\* of the package is built with: these tokens are dropped from the stream.
Elided(toks) == SelectSeq(toks, LAMBDA t : t.type \notin {"Whitespace", "Comment"})

(* ------------------------------------------------------------------ *)
(* Generic tree: Sexpr = List | Atom                                   *)
(* ------------------------------------------------------------------ *)
\* k is "list", "String", "Number", "Sym", or "nil" for a nil *Sexpr.
ListNode(els) == [k |-> "list", els |-> els, text |-> <<>>]
AtomNode(k, text) == [k |-> k, els |-> <<>>, text |-> text]
NilNode == [k |-> "nil", els |-> <<>>, text |-> <<>>]

IsList(n) == n.k = "list"
IsAtom(n) == n.k \in {"String", "Number", "Sym"}

\* A literal of the grammar matches a token by its value.
IsLit(toks, i, lit) == i <= Len(toks) /\ toks[i].value = <<lit>>

AtomKind(type) ==
    IF type = "String" THEN "String"
    ELSE IF type = "Number" THEN "Number"
    ELSE IF type \in {"Ident", "ColonIdent"} THEN "Sym"
    ELSE ""

\* Sexpr at token i: ok, the node and the index of the next token.
RECURSIVE Sexpr(_, _)
RECURSIVE List(_, _, _)
Sexpr(toks, i) ==
    IF i > Len(toks) THEN [ok |-> FALSE, matched |-> FALSE, node |-> NilNode, next |-> i]
    ELSE IF IsLit(toks, i, "(") THEN List(toks, i + 1, <<>>)
    ELSE IF AtomKind(toks[i].type) # ""
    THEN [ok |-> TRUE, matched |-> TRUE,
          node |-> AtomNode(AtomKind(toks[i].type), toks[i].value), next |-> i + 1]
    ELSE [ok |-> FALSE, matched |-> FALSE, node |-> NilNode, next |-> i]

\* "(" @@* ")" after the "(": matched = FALSE means no token was consumed.
List(toks, i, acc) ==
    LET e == Sexpr(toks, i)
    IN  IF e.ok THEN List(toks, e.next, Append(acc, e.node))
        ELSE IF e.matched THEN e
        ELSE IF IsLit(toks, i, ")")
        THEN [ok |-> TRUE, matched |-> TRUE, node |-> ListNode(acc), next |-> i + 1]
        ELSE [ok |-> FALSE, matched |-> TRUE, node |-> NilNode, next |-> i]

\* ParseString accepting a root that is followed by more tokens.
ParseStringPrefix(text) ==
    With(sexprLexer(text), LAMBDA lx :
        IF ~lx.ok THEN [kind |-> "lex", node |-> NilNode]
        ELSE With(MapTokens(lx.toks), LAMBDA mt :
                IF ~mt.ok THEN [kind |-> "syntax", node |-> NilNode]
                ELSE With(Sexpr(mt.toks, 1), LAMBDA r :
                        IF r.ok THEN [kind |-> "ok", node |-> r.node]
                        ELSE [kind |-> "syntax", node |-> NilNode])))

\* ParseString: lex everything, map the tokens, parse one Sexpr, require
\* the end of input.  kind is "ok", "lex" or "syntax".
ParseString(text) ==
    With(sexprLexer(text), LAMBDA lx :
        IF ~lx.ok THEN [kind |-> "lex", node |-> NilNode]
        ELSE With(MapTokens(lx.toks), LAMBDA mt :
                IF ~mt.ok THEN [kind |-> "syntax", node |-> NilNode]
                ELSE With(Sexpr(mt.toks, 1), LAMBDA r :
                        IF r.ok /\ r.next = Len(mt.toks) + 1
                        THEN [kind |-> "ok", node |-> r.node]
                        ELSE [kind |-> "syntax", node |-> NilNode])))

(* ------------------------------------------------------------------ *)
(* Go values of the document                                           *)
(* ------------------------------------------------------------------ *)
\* A Go map is a function on its key set; the empty function is both the
\* nil and the empty map (len and range do not tell them apart).
EmptyMap == <<>>
MapPut(m, k, v) == [x \in (DOMAIN m) \cup {k} |-> IF x = k THEN v ELSE m[x]]
MapGet(m, k, dflt) == IF k \in DOMAIN m THEN m[k] ELSE dflt

\* An interface{} value by dynamic type: "nil", "string", "uint64",
\* "float64" or "bool", with the units of its content.
GoVal(t, s) == [t |-> t, s |-> s]
NilVal == GoVal("nil", <<>>)

DigitVal == [d \in Digits |->
    CASE d = "0" -> 0 [] d = "1" -> 1 [] d = "2" -> 2 [] d = "3" -> 3
      [] d = "4" -> 4 [] d = "5" -> 5 [] d = "6" -> 6 [] d = "7" -> 7
      [] d = "8" -> 8 [] d = "9" -> 9]

\* math.MaxUint64 = 18446744073709551615
MaxUint64 == <<"1", "8", "4", "4", "6", "7", "4", "4", "0", "7",
               "3", "7", "0", "9", "5", "5", "1", "6", "1", "5">>

RECURSIVE StripZeros(_)
StripZeros(ds) ==
    IF Len(ds) > 1 /\ Head(ds) = "0" THEN StripZeros(Tail(ds)) ELSE ds

\* a <= b for two digit sequences of the same length
DigitsLeq(a, b) ==
    \/ a = b
    \/ \E i \in 1..Len(a) :
          /\ \A j \in 1..(i - 1) : a[j] = b[j]
          /\ DigitVal[a[i]] < DigitVal[b[i]]

\* strconv.ParseUint(s, 10, 64).  A uint64 is held as its decimal digits
\* without leading zeros.  err is "", "syntax" or "range"; the value
\* returned with an error is 0, or MaxUint64 for a range error.
ParseUint(s) ==
    IF s = <<>> \/ \E i \in 1..Len(s) : s[i] \notin Digits
    THEN [v |-> <<"0">>, err |-> "syntax"]
    ELSE LET n == StripZeros(s)
         IN  IF Len(n) < 20 \/ (Len(n) = 20 /\ DigitsLeq(n, MaxUint64))
             THEN [v |-> n, err |-> ""]
             ELSE [v |-> MaxUint64, err |-> "range"]

RECURSIVE StripTrailingZeros(_)
StripTrailingZeros(ds) ==
    IF ds # <<>> /\ ds[Len(ds)] = "0"
    THEN StripTrailingZeros(SubSeq(ds, 1, Len(ds) - 1)) ELSE ds

\* strconv.ParseFloat on the text of a Number token (digits, optionally
\* '.' and digits): the decimal it denotes, held as its shortest decimal
\* text.  Rounding to 53 bits is not modelled.
ParseFloat(s) ==
    LET dot == SpanEnd(s, 1, LAMBDA u : u # ".")
        ip == StripZeros(SubSeq(s, 1, dot - 1))
        fp == StripTrailingZeros(SubSeq(s, dot + 1, Len(s)))
    IN  IF fp = <<>> THEN ip ELSE ip \o <<".">> \o fp

(* ------------------------------------------------------------------ *)
(* Time: instants are half seconds; 0 is Go's zero time.Time           *)
(* ------------------------------------------------------------------ *)
ZeroTime == 0
IsZero(t) == t = ZeroTime

DatePrefix == "2024-01-01T00:00:0"

DigitOf(n) == CHOOSE d \in Digits : DigitVal[d] = n

\* time.Parse(time.RFC3339, s): the texts 2024-01-01T00:00:0dZ and
\* 2024-01-01T00:00:0d.5Z are the RFC-3339 texts of the model, and
\* 0001-01-01T00:00:00Z is the text of the zero time.
TimeParse(s) ==
    IF s = <<"0001-01-01T00:00:00Z">> THEN [ok |-> TRUE, t |-> ZeroTime]
    ELSE IF Len(s) = 3 /\ s[1] = DatePrefix /\ s[2] \in Digits /\ s[3] = "Z"
    THEN [ok |-> TRUE, t |-> 2 * DigitVal[s[2]] + 1]
    ELSE IF Len(s) = 5 /\ s[1] = DatePrefix /\ s[2] \in Digits /\ s[3] = "."
            /\ s[4] = "5" /\ s[5] = "Z"
    THEN [ok |-> TRUE, t |-> 2 * DigitVal[s[2]] + 2]
    ELSE [ok |-> FALSE, t |-> ZeroTime]

\* t.UTC().Format("2006-01-02T15:04:05Z07:00"): whole seconds only.
TimeFormat(t) ==
    IF t = ZeroTime THEN <<"0001-01-01T00:00:00Z">>
    ELSE <<DatePrefix, DigitOf((t - 1) \div 2), "Z">>

(* ------------------------------------------------------------------ *)
(* Document types (package ast, the map-based declarations)            *)
(* ------------------------------------------------------------------ *)
Meta(id, version, created, updated) ==
    [isNil |-> FALSE, RequestID |-> id, Version |-> version,
     CreatedAt |-> created, UpdatedAt |-> updated]
NilMeta ==
    [isNil |-> TRUE, RequestID |-> <<>>, Version |-> <<"0">>,
     CreatedAt |-> ZeroTime, UpdatedAt |-> ZeroTime]

\* Transitions is a list of Transition; the mapper leaves it nil.
Transition(from, to) == [From |-> from, To |-> to]
Lifecycle(states, initial) == [States |-> states, Initial |-> initial, Transitions |-> <<>>]

NoProvenance == [set |-> FALSE, s |-> <<>>]
AttrVal(value, prov) == [Value |-> value, Provenance |-> prov]

Entity(id, typ, attrs) == [ID |-> id, Typ |-> typ, Attrs |-> attrs]

RequireItem(kind, id) == [Kind |-> kind, ID |-> id]
Resource(id, typ, requires, config) ==
    [ID |-> id, Typ |-> typ, Requires |-> requires, Config |-> config]

NilTask == [isNil |-> TRUE, ID |-> <<>>, On |-> <<>>, Op |-> <<>>, Args |-> EmptyMap]
Task(id, on, op, args) == [isNil |-> FALSE, ID |-> id, On |-> on, Op |-> op, Args |-> args]
NilGate == [isNil |-> TRUE, ID |-> <<>>, Condition |-> <<>>]
Gate(id, cond) == [isNil |-> FALSE, ID |-> id, Condition |-> cond]
\* Fork and Join hold an id and a list of ids (Branches, After).
NilRef == [isNil |-> TRUE, ID |-> <<>>, Refs |-> <<>>]
Ref(id, refs) == [isNil |-> FALSE, ID |-> id, Refs |-> refs]
Step(kind, task, gate, fork, join) ==
    [Kind |-> kind, Task |-> task, Gate |-> gate, Fork |-> fork, Join |-> join]

Flow(id, steps) == [ID |-> id, Steps |-> steps]

Orchestrator(lc, ents, res, flows) ==
    [Lifecycle |-> lc, Entities |-> ents, Resources |-> res, Flows |-> flows]

Request(meta, orch) == [Meta |-> meta, Orchestrator |-> orch]

\* The value returned next to a non-nil error.
NilRequest == Request(NilMeta, Orchestrator(Lifecycle(<<>>, <<>>), EmptyMap, EmptyMap, EmptyMap))

(* ------------------------------------------------------------------ *)
(* Mapping Sexpr -> AST                                                *)
(* ------------------------------------------------------------------ *)
atomText(n) == IF IsAtom(n) THEN n.text ELSE <<>>

\* A symbol spelled true or false is a bool; any other symbol, and every
\* quoted string, is a Go string.
atomValue(n) ==
    IF n.k = "String" THEN GoVal("string", n.text)
    ELSE IF n.k = "Number"
    THEN IF ParseUint(n.text).err = "" THEN GoVal("uint64", ParseUint(n.text).v)
         ELSE GoVal("float64", ParseFloat(n.text))
    ELSE IF n.k = "Sym"
    THEN IF Str(n.text) \in {"true", "false"} THEN GoVal("bool", n.text)
         ELSE GoVal("string", n.text)
    ELSE NilVal

\* The map from each ":key" symbol to the node after it; keys are Go strings.
\* parseKeywordMap with a loop that stops one element early.
RECURSIVE KeywordMapFromShort(_, _, _)
KeywordMapFromShort(list, i, m) ==
    IF i > Len(list) - 2 THEN m
    ELSE IF list[i].k = "Sym" /\ Head(list[i].text) = ":"
    THEN KeywordMapFromShort(list, i + 2, MapPut(m, Str(list[i].text), list[i + 1]))
    ELSE KeywordMapFromShort(list, i + 1, m)

RECURSIVE KeywordMapFrom(_, _, _)
KeywordMapFrom(list, i, m) ==
    IF i > Len(list) - 1 THEN m
    ELSE IF list[i].k = "Sym" /\ Head(list[i].text) = ":"
    THEN KeywordMapFrom(list, i + 2, MapPut(m, Str(list[i].text), list[i + 1]))
    ELSE KeywordMapFrom(list, i + 1, m)

parseKeywordMap(list) == KeywordMapFrom(list, 1, EmptyMap)

KGet(kmap, key) == MapGet(kmap, key, NilNode)

\* Elements[1:]
Rest(n) == SubSeq(n.els, 2, Len(n.els))

\* The text of Elements[0] where the code reads it without a length check;
\* the Panics operators below say when that read is out of range.
HeadText(n) == IF n.els = <<>> THEN "" ELSE Str(atomText(n.els[1]))

RECURSIVE MetaFrom(_, _, _)
MetaFrom(els, i, m) ==
    IF i > Len(els) THEN m
    ELSE LET kv == els[i]
         IN  IF ~IsList(kv) \/ Len(kv.els) < 2 THEN MetaFrom(els, i + 1, m)
             ELSE LET k == Str(atomText(kv.els[1]))
                      v == atomText(kv.els[2])
                      m2 == IF k = "request-id" THEN [m EXCEPT !.RequestID = v]
                            ELSE IF k = "version" THEN [m EXCEPT !.Version = ParseUint(v).v]
                            ELSE IF k = "created-at" /\ TimeParse(v).ok
                            THEN [m EXCEPT !.CreatedAt = TimeParse(v).t]
                            ELSE IF k = "updated-at" /\ TimeParse(v).ok
                            THEN [m EXCEPT !.UpdatedAt = TimeParse(v).t]
                            ELSE m
                  IN  MetaFrom(els, i + 1, m2)

\* parseMeta without the defaults at its end.
parseMetaNoDefaults(body, now) ==
    LET m0 == Meta(<<>>, <<"0">>, ZeroTime, ZeroTime)
    IN  IF ~IsList(body) THEN m0 ELSE MetaFrom(body.els, 1, m0)

parseMeta(body, now) ==
    LET m0 == Meta(<<>>, <<"0">>, ZeroTime, ZeroTime)
    IN  IF ~IsList(body) THEN m0
        ELSE LET m == MetaFrom(body.els, 1, m0)
             IN  IF IsZero(m.CreatedAt)
                 THEN [m EXCEPT !.CreatedAt = now, !.UpdatedAt = now]
                 ELSE IF IsZero(m.UpdatedAt)
                 THEN [m EXCEPT !.UpdatedAt = m.CreatedAt]
                 ELSE m

RECURSIVE TextsOf(_, _)
TextsOf(els, i) ==
    IF i > Len(els) THEN <<>> ELSE <<atomText(els[i])>> \o TextsOf(els, i + 1)

RECURSIVE LifecycleFrom(_, _, _)
LifecycleFrom(els, i, lc) ==
    IF i > Len(els) THEN lc
    ELSE LET el == els[i]
         IN  IF ~IsList(el) \/ Len(el.els) = 0 THEN LifecycleFrom(els, i + 1, lc)
             ELSE LET key == Str(atomText(el.els[1]))
                      lc2 == IF key = "states"
                             THEN [lc EXCEPT !.States = lc.States \o TextsOf(el.els, 2)]
                             ELSE IF key = "initial" /\ Len(el.els) > 1
                             THEN [lc EXCEPT !.Initial = atomText(el.els[2])]
                             ELSE lc
                  IN  LifecycleFrom(els, i + 1, lc2)

parseLifecycle(body) ==
    IF ~IsList(body) THEN Lifecycle(<<>>, <<>>)
    ELSE LifecycleFrom(body.els, 1, Lifecycle(<<>>, <<>>))

RECURSIVE AttrsFrom(_, _, _)
AttrsFrom(list, i, m) ==
    IF i > Len(list) THEN m
    ELSE LET el == list[i]
         IN  IF ~IsList(el) \/ Len(el.els) < 2 THEN AttrsFrom(list, i + 1, m)
             ELSE LET kmap == parseKeywordMap(SubSeq(el.els, 3, Len(el.els)))
                      prov == IF ":provenance" \in DOMAIN kmap
                              THEN [set |-> TRUE, s |-> atomText(kmap[":provenance"])]
                              ELSE NoProvenance
                  IN  AttrsFrom(list, i + 1,
                          MapPut(m, atomText(el.els[1]), AttrVal(atomValue(el.els[2]), prov)))

parseAttrs(list) == AttrsFrom(list, 1, EmptyMap)

\* Index of the first element of els, from i on, that is a list headed by
\* key; 0 when there is none.
RECURSIVE FindClause(_, _, _)
FindClause(els, i, key) ==
    IF i > Len(els) THEN 0
    ELSE IF IsList(els[i]) /\ HeadText(els[i]) = key THEN i
    ELSE FindClause(els, i + 1, key)

\* The search loops read Elements[0] of every list they pass: they abort on
\* an empty list that comes before the clause they look for.
RECURSIVE FindClausePanics(_, _, _)
FindClausePanics(els, i, key) ==
    IF i > Len(els) THEN FALSE
    ELSE IF IsList(els[i]) /\ els[i].els = <<>> THEN TRUE
    ELSE IF IsList(els[i]) /\ HeadText(els[i]) = key THEN FALSE
    ELSE FindClausePanics(els, i + 1, key)

\* parseEntities keeping the first entity of an id instead of the last.
RECURSIVE EntitiesFromKeepFirst(_, _, _)
EntitiesFromKeepFirst(els, i, m) ==
    IF i > Len(els) THEN m
    ELSE LET el == els[i]
         IN  IF ~IsList(el) \/ HeadText(el) # "entity" THEN EntitiesFromKeepFirst(els, i + 1, m)
             ELSE LET kmap == parseKeywordMap(Rest(el))
                      id == atomText(KGet(kmap, ":id"))
                      a == FindClause(el.els, 2, "attrs")
                      attrs == IF a = 0 THEN EmptyMap ELSE parseAttrs(Rest(el.els[a]))
                  IN  EntitiesFromKeepFirst(els, i + 1,
                          IF id \in DOMAIN m THEN m
                          ELSE MapPut(m, id, Entity(id, atomText(KGet(kmap, ":type")), attrs)))

RECURSIVE EntitiesFrom(_, _, _)
EntitiesFrom(els, i, m) ==
    IF i > Len(els) THEN m
    ELSE LET el == els[i]
         IN  IF ~IsList(el) \/ HeadText(el) # "entity" THEN EntitiesFrom(els, i + 1, m)
             ELSE LET kmap == parseKeywordMap(Rest(el))
                      id == atomText(KGet(kmap, ":id"))
                      a == FindClause(el.els, 2, "attrs")
                      attrs == IF a = 0 THEN EmptyMap ELSE parseAttrs(Rest(el.els[a]))
                  IN  EntitiesFrom(els, i + 1,
                          MapPut(m, id, Entity(id, atomText(KGet(kmap, ":type")), attrs)))

parseEntities(body) ==
    IF ~IsList(body) THEN EmptyMap ELSE EntitiesFrom(body.els, 1, EmptyMap)

parseEntitiesPanics(body) ==
    /\ IsList(body)
    /\ \E i \in 1..Len(body.els) :
          LET el == body.els[i]
          IN  /\ IsList(el)
              /\ \/ el.els = <<>>
                 \/ HeadText(el) = "entity" /\ FindClausePanics(el.els, 2, "attrs")

RECURSIVE RequiresFrom(_, _)
RequiresFrom(list, i) ==
    IF i > Len(list) THEN <<>>
    ELSE IF ~IsList(list[i]) \/ Len(list[i].els) # 2 THEN RequiresFrom(list, i + 1)
    ELSE <<RequireItem(atomText(list[i].els[1]), atomText(list[i].els[2]))>>
            \o RequiresFrom(list, i + 1)

parseRequires(list) == RequiresFrom(list, 1)

RECURSIVE ConfigFrom(_, _, _)
ConfigFrom(list, i, m) ==
    IF i > Len(list) THEN m
    ELSE IF ~IsList(list[i]) \/ Len(list[i].els) # 2 THEN ConfigFrom(list, i + 1, m)
    ELSE ConfigFrom(list, i + 1,
             MapPut(m, atomText(list[i].els[1]), atomValue(list[i].els[2])))

parseConfig(list) == ConfigFrom(list, 1, EmptyMap)

\* The requires and config clauses of one resource: each clause found
\* replaces the field.
RECURSIVE ResourceFrom(_, _, _)
ResourceFrom(els, i, res) ==
    IF i > Len(els) THEN res
    ELSE LET subEl == els[i]
         IN  IF ~IsList(subEl) \/ Len(subEl.els) = 0 THEN ResourceFrom(els, i + 1, res)
             ELSE LET key == Str(atomText(subEl.els[1]))
                      res2 == IF key = "requires"
                              THEN [res EXCEPT !.Requires = parseRequires(Rest(subEl))]
                              ELSE IF key = "config"
                              THEN [res EXCEPT !.Config = parseConfig(Rest(subEl))]
                              ELSE res
                  IN  ResourceFrom(els, i + 1, res2)

RECURSIVE ResourcesFrom(_, _, _)
ResourcesFrom(els, i, m) ==
    IF i > Len(els) THEN m
    ELSE LET el == els[i]
         IN  IF ~IsList(el) \/ HeadText(el) # "resource" THEN ResourcesFrom(els, i + 1, m)
             ELSE LET kmap == parseKeywordMap(Rest(el))
                      id == atomText(KGet(kmap, ":id"))
                      res0 == Resource(id, atomText(KGet(kmap, ":type")), <<>>, EmptyMap)
                  IN  ResourcesFrom(els, i + 1, MapPut(m, id, ResourceFrom(el.els, 2, res0)))

parseResources(body) ==
    IF ~IsList(body) THEN EmptyMap ELSE ResourcesFrom(body.els, 1, EmptyMap)

parseResourcesPanics(body) ==
    /\ IsList(body)
    /\ \E i \in 1..Len(body.els) : IsList(body.els[i]) /\ body.els[i].els = <<>>

parseTask(node) ==
    LET kmap == parseKeywordMap(Rest(node))
        a == FindClause(node.els, 2, "args")
    IN  Task(atomText(KGet(kmap, ":id")), atomText(KGet(kmap, ":on")),
             atomText(KGet(kmap, ":op")),
             IF a = 0 THEN EmptyMap ELSE parseConfig(Rest(node.els[a])))

parseTaskPanics(node) == FindClausePanics(node.els, 2, "args")

parseGate(node) ==
    LET kmap == parseKeywordMap(Rest(node))
        w == FindClause(node.els, 2, "when")
    IN  Gate(atomText(KGet(kmap, ":id")),
             IF w = 0 \/ Len(node.els[w].els) < 2 THEN <<>>
             ELSE atomText(node.els[w].els[2]))

\* Elements[1] of the (when ...) clause is read without a length check.
parseGatePanics(node) ==
    \/ FindClausePanics(node.els, 2, "when")
    \/ LET w == FindClause(node.els, 2, "when")
       IN  w # 0 /\ Len(node.els[w].els) < 2

RECURSIVE StepsFrom(_, _)
StepsFrom(list, i) ==
    IF i > Len(list) THEN <<>>
    ELSE LET el == list[i]
         IN  IF ~IsList(el) \/ Len(el.els) = 0 THEN StepsFrom(list, i + 1)
             ELSE LET kind == Str(atomText(el.els[1]))
                  IN  IF kind = "task"
                      THEN <<Step(<<"task">>, parseTask(el), NilGate, NilRef, NilRef)>>
                              \o StepsFrom(list, i + 1)
                      ELSE IF kind = "gate"
                      THEN <<Step(<<"gate">>, NilTask, parseGate(el), NilRef, NilRef)>>
                              \o StepsFrom(list, i + 1)
                      ELSE StepsFrom(list, i + 1)

parseSteps(list) == StepsFrom(list, 1)

parseStepsPanics(list) ==
    \E i \in 1..Len(list) :
        LET el == list[i]
        IN  /\ IsList(el) /\ Len(el.els) > 0
            /\ \/ Str(atomText(el.els[1])) = "task" /\ parseTaskPanics(el)
               \/ Str(atomText(el.els[1])) = "gate" /\ parseGatePanics(el)

RECURSIVE FlowsFrom(_, _, _)
FlowsFrom(els, i, m) ==
    IF i > Len(els) THEN m
    ELSE LET el == els[i]
         IN  IF ~IsList(el) \/ HeadText(el) # "flow" THEN FlowsFrom(els, i + 1, m)
             ELSE LET kmap == parseKeywordMap(Rest(el))
                      id == atomText(KGet(kmap, ":id"))
                      st == FindClause(el.els, 2, "steps")
                      steps == IF st = 0 THEN <<>> ELSE parseSteps(Rest(el.els[st]))
                  IN  FlowsFrom(els, i + 1, MapPut(m, id, Flow(id, steps)))

parseFlows(body) ==
    IF ~IsList(body) THEN EmptyMap ELSE FlowsFrom(body.els, 1, EmptyMap)

parseFlowsPanics(body) ==
    /\ IsList(body)
    /\ \E i \in 1..Len(body.els) :
          LET el == body.els[i]
          IN  /\ IsList(el)
              /\ \/ el.els = <<>>
                 \/ /\ HeadText(el) = "flow"
                    /\ \/ FindClausePanics(el.els, 2, "steps")
                       \/ LET st == FindClause(el.els, 2, "steps")
                          IN  st # 0 /\ parseStepsPanics(Rest(el.els[st]))

\* The pairs of the :orchestrator body, each dispatched on its head.
RECURSIVE OrchestratorFrom(_, _, _)
OrchestratorFrom(els, i, o) ==
    IF i > Len(els) THEN o
    ELSE LET pair == els[i]
         IN  IF ~IsList(pair) \/ Len(pair.els) < 2 \/ pair.els[1].k # "Sym"
             THEN OrchestratorFrom(els, i + 1, o)
             ELSE LET h == Str(pair.els[1].text)
                      val == pair.els[2]
                      o2 == IF h = ":lifecycle" THEN [o EXCEPT !.Lifecycle = parseLifecycle(val)]
                            ELSE IF h = ":entities" THEN [o EXCEPT !.Entities = parseEntities(val)]
                            ELSE IF h = ":resources" THEN [o EXCEPT !.Resources = parseResources(val)]
                            ELSE IF h = ":flows" THEN [o EXCEPT !.Flows = parseFlows(val)]
                            ELSE o
                  IN  OrchestratorFrom(els, i + 1, o2)

OrchestratorPanics(els) ==
    \E i \in 1..Len(els) :
        LET pair == els[i]
        IN  /\ IsList(pair) /\ Len(pair.els) >= 2 /\ pair.els[1].k = "Sym"
            /\ LET h == Str(pair.els[1].text)
                   val == pair.els[2]
               IN  \/ h = ":entities" /\ parseEntitiesPanics(val)
                   \/ h = ":resources" /\ parseResourcesPanics(val)
                   \/ h = ":flows" /\ parseFlowsPanics(val)

\* The section loop ending at the first section it does not know.
RECURSIVE SectionsFromKnownOnly(_, _, _, _)
SectionsFromKnownOnly(els, i, req, now) ==
    IF i > Len(els) THEN req
    ELSE LET sec == els[i]
         IN  IF ~IsList(sec) \/ Len(sec.els) < 2 \/ sec.els[1].k # "Sym"
             THEN req
             ELSE LET head == Str(sec.els[1].text)
                      body == sec.els[2]
                  IN  IF head = ":meta"
                      THEN SectionsFromKnownOnly(els, i + 1, [req EXCEPT !.Meta = parseMeta(body, now)], now)
                      ELSE IF head = ":orchestrator" /\ IsList(body)
                      THEN SectionsFromKnownOnly(els, i + 1,
                               [req EXCEPT !.Orchestrator =
                                    OrchestratorFrom(body.els, 1, req.Orchestrator)], now)
                      ELSE req

\* The sections after the head symbol, each dispatched on its head.
RECURSIVE SectionsFrom(_, _, _, _)
SectionsFrom(els, i, req, now) ==
    IF i > Len(els) THEN req
    ELSE LET sec == els[i]
         IN  IF ~IsList(sec) \/ Len(sec.els) < 2 \/ sec.els[1].k # "Sym"
             THEN SectionsFrom(els, i + 1, req, now)
             ELSE LET head == Str(sec.els[1].text)
                      body == sec.els[2]
                      req2 == IF head = ":meta" THEN [req EXCEPT !.Meta = parseMeta(body, now)]
                              ELSE IF head = ":orchestrator" /\ IsList(body)
                              THEN [req EXCEPT !.Orchestrator =
                                        OrchestratorFrom(body.els, 1, req.Orchestrator)]
                              ELSE req
                  IN  SectionsFrom(els, i + 1, req2, now)

SectionsPanic(els) ==
    \E i \in 2..Len(els) :
        LET sec == els[i]
        IN  /\ IsList(sec) /\ Len(sec.els) >= 2 /\ sec.els[1].k = "Sym"
            /\ Str(sec.els[1].text) = ":orchestrator"
            /\ IsList(sec.els[2])
            /\ OrchestratorPanics(sec.els[2].els)

\* sexprToRequest without the test of the head symbol.
sexprToRequestAnyHead(root, now) ==
    IF ~IsList(root) \/ Len(root.els) = 0
    THEN [kind |-> "mapping", doc |-> NilRequest]
    ELSE IF SectionsPanic(root.els)
    THEN [kind |-> "panic", doc |-> NilRequest]
    ELSE [kind |-> "ok", doc |-> SectionsFrom(root.els, 2, NilRequest, now)]

\* kind is "ok", "mapping" (one of the two fmt.Errorf errors) or "panic"
\* (an index out of range aborts the call).
sexprToRequest(root, now) ==
    IF ~IsList(root) \/ Len(root.els) = 0
    THEN [kind |-> "mapping", doc |-> NilRequest]
    ELSE IF ~(root.els[1].k = "Sym" /\ Str(root.els[1].text) = "onboarding-request")
    THEN [kind |-> "mapping", doc |-> NilRequest]
    ELSE IF SectionsPanic(root.els)
    THEN [kind |-> "panic", doc |-> NilRequest]
    ELSE [kind |-> "ok", doc |-> SectionsFrom(root.els, 2, NilRequest, now)]

\* PartParser.Parse: kind is "ok", "lex", "syntax", "mapping" or "panic".
Parse(text, now) ==
    With(ParseString(text), LAMBDA root :
        IF root.kind # "ok" THEN [kind |-> root.kind, doc |-> NilRequest]
        ELSE sexprToRequest(root.node, now))

(* ------------------------------------------------------------------ *)
(* Printer: ToSexpr and printValue                                     *)
(* ------------------------------------------------------------------ *)
Indent(n) == [i \in 1..n |-> " "]

\* %q on a string: strconv.Quote
RECURSIVE QuoteBody(_)
QuoteBody(us) ==
    IF us = <<>> THEN <<>>
    ELSE LET c == Head(us)
             e == IF c = "\"" \/ c = "\\" THEN <<"\\", c>>
                  ELSE IF c = "\n" THEN <<"\\", "n">>
                  ELSE IF c = "\t" THEN <<"\\", "t">>
                  ELSE <<c>>
         IN  e \o QuoteBody(Tail(us))

Quote(us) == <<"\"">> \o QuoteBody(us) \o <<"\"">>

\* string: %q; uint64 and float64: %d, which for a float64 is the fmt
\* bad-verb text %!d(float64=...); bool: %t; nil: %v
printValue(v) ==
    IF v.t = "string" THEN Quote(v.s)
    ELSE IF v.t = "uint64" THEN v.s
    ELSE IF v.t = "float64" THEN <<"%", "!", "d", "(", "float64", "=">> \o v.s \o <<")">>
    ELSE IF v.t = "bool" THEN v.s
    ELSE <<"<", "nil", ">">>

\* All orders in which a range loop can visit the key set S.
Perms(S) ==
    { q \in [1..Cardinality(S) -> S] : \A i, j \in 1..Cardinality(S) : q[i] = q[j] => i = j }

\* One choice of the iteration order of every map ToSexpr ranges over.
AllOrders(req) ==
    [ents : Perms(DOMAIN req.Orchestrator.Entities),
     attrs : [DOMAIN req.Orchestrator.Entities ->
                 UNION { Perms(DOMAIN req.Orchestrator.Entities[e].Attrs) :
                            e \in DOMAIN req.Orchestrator.Entities }],
     res : Perms(DOMAIN req.Orchestrator.Resources),
     flows : Perms(DOMAIN req.Orchestrator.Flows)]

Orders(req) ==
    { ord \in AllOrders(req) :
        \A e \in DOMAIN req.Orchestrator.Entities :
            ord.attrs[e] \in Perms(DOMAIN req.Orchestrator.Entities[e].Attrs) }

RECURSIVE PrintStates(_)
PrintStates(sts) ==
    IF sts = <<>> THEN <<>> ELSE <<" ">> \o Head(sts) \o PrintStates(Tail(sts))

RECURSIVE PrintAttrs(_, _, _)
PrintAttrs(attrs, order, i) ==
    IF i > Len(order) THEN <<>>
    ELSE Indent(10) \o <<"(">> \o order[i] \o <<" ">> \o printValue(attrs[order[i]].Value)
            \o <<")", "\n">> \o PrintAttrs(attrs, order, i + 1)

RECURSIVE PrintEntities(_, _, _)
PrintEntities(ents, ord, i) ==
    IF i > Len(ord.ents) THEN <<>>
    ELSE LET e == ents[ord.ents[i]]
         IN  Indent(6) \o <<"(", "entity", " ", ":", "id", " ">> \o Quote(e.ID)
                \o <<" ", ":", "type", " ">> \o e.Typ \o <<"\n">>
                \o Indent(8) \o <<"(", "attrs", "\n">>
                \o PrintAttrs(e.Attrs, ord.attrs[ord.ents[i]], 1)
                \o Indent(8) \o <<")", ")", "\n">>
                \o PrintEntities(ents, ord, i + 1)

RECURSIVE PrintResources(_, _, _)
PrintResources(res, order, i) ==
    IF i > Len(order) THEN <<>>
    ELSE LET r == res[order[i]]
         IN  Indent(6) \o <<"(", "resource", " ", ":", "id", " ">> \o Quote(r.ID)
                \o <<" ", ":", "type", " ">> \o r.Typ \o <<")", "\n">>
                \o PrintResources(res, order, i + 1)

\* A step of kind fork or join, or of any other kind, prints nothing.
RECURSIVE PrintSteps(_)
PrintSteps(steps) ==
    IF steps = <<>> THEN <<>>
    ELSE LET st == Head(steps)
             line == IF Str(st.Kind) = "task"
                     THEN Indent(10) \o <<"(", "task", " ", ":", "id", " ">> \o Quote(st.Task.ID)
                             \o <<" ", ":", "on", " ">> \o Quote(st.Task.On)
                             \o <<" ", ":", "op", " ">> \o st.Task.Op \o <<")", "\n">>
                     ELSE IF Str(st.Kind) = "gate"
                     THEN Indent(10) \o <<"(", "gate", " ", ":", "id", " ">> \o Quote(st.Gate.ID)
                             \o <<" ", "(", "when", " ">> \o Quote(st.Gate.Condition)
                             \o <<")", ")", "\n">>
                     ELSE <<>>
         IN  line \o PrintSteps(Tail(steps))

RECURSIVE PrintFlows(_, _, _)
PrintFlows(flows, order, i) ==
    IF i > Len(order) THEN <<>>
    ELSE LET f == flows[order[i]]
         IN  Indent(6) \o <<"(", "flow", " ", ":", "id", " ">> \o Quote(f.ID) \o <<"\n">>
                \o Indent(8) \o <<"(", "steps", "\n">>
                \o PrintSteps(f.Steps)
                \o Indent(8) \o <<")", ")", "\n">>
                \o PrintFlows(flows, order, i + 1)

PrintMeta(m) ==
    IF m.isNil THEN <<>>
    ELSE Indent(2) \o <<"(", ":", "meta", "\n">>
            \o Indent(4) \o <<"(", "request-id", " ">> \o Quote(m.RequestID) \o <<")", "\n">>
            \o Indent(4) \o <<"(", "version", " ">> \o m.Version \o <<")", "\n">>
            \o (IF ~IsZero(m.CreatedAt)
                THEN Indent(4) \o <<"(", "created-at", " ">> \o Quote(TimeFormat(m.CreatedAt))
                        \o <<")", "\n">>
                ELSE <<>>)
            \o (IF ~IsZero(m.UpdatedAt)
                THEN Indent(4) \o <<"(", "updated-at", " ">> \o Quote(TimeFormat(m.UpdatedAt))
                        \o <<")", "\n">>
                ELSE <<>>)
            \o Indent(2) \o <<")", "\n">>

DefaultStates ==
    <<" ", "draft", " ", "validated", " ", "compiled", " ", "executing",
      " ", "completed", " ", "failed">>

\* The lifecycle printed as it is held, without defaults.
PrintLifecycleAsHeld(lc) ==
    Indent(4) \o <<"(", ":", "lifecycle", "\n">>
        \o Indent(6) \o <<"(", "states">> \o PrintStates(lc.States) \o <<")", "\n">>
        \o Indent(6) \o <<"(", "initial", " ">> \o lc.Initial \o <<")", "\n">>
        \o Indent(6) \o <<"(", "transitions", ")", "\n">>
        \o Indent(4) \o <<")", "\n">>

PrintLifecycle(lc) ==
    Indent(4) \o <<"(", ":", "lifecycle", "\n">>
        \o Indent(6) \o <<"(", "states">>
        \o (IF Len(lc.States) = 0 THEN DefaultStates ELSE PrintStates(lc.States))
        \o <<")", "\n">>
        \o (IF lc.Initial = <<>>
            THEN Indent(6) \o <<"(", "initial", " ", "draft", ")", "\n">>
            ELSE Indent(6) \o <<"(", "initial", " ">> \o lc.Initial \o <<")", "\n">>)
        \o Indent(6) \o <<"(", "transitions", ")", "\n">>
        \o Indent(4) \o <<")", "\n">>

\* The text ToSexpr returns when its range loops visit the maps in the
\* orders ord.
ToSexpr(req, ord) ==
    LET o == req.Orchestrator
    IN  <<"(", "onboarding-request", "\n">>
            \o PrintMeta(req.Meta)
            \o Indent(2) \o <<"(", ":", "orchestrator", "\n">>
            \o PrintLifecycle(o.Lifecycle)
            \o Indent(4) \o <<"(", ":", "entities">>
            \o (IF Cardinality(DOMAIN o.Entities) = 0 THEN <<")", "\n">>
                ELSE <<"\n">> \o PrintEntities(o.Entities, ord, 1) \o Indent(4) \o <<")", "\n">>)
            \o Indent(4) \o <<"(", ":", "resources">>
            \o (IF Cardinality(DOMAIN o.Resources) = 0 THEN <<")", "\n">>
                ELSE <<"\n">> \o PrintResources(o.Resources, ord.res, 1) \o Indent(4) \o <<")", "\n">>)
            \o Indent(4) \o <<"(", ":", "flows">>
            \o (IF Cardinality(DOMAIN o.Flows) = 0 THEN <<")", "\n">>
                ELSE <<"\n">> \o PrintFlows(o.Flows, ord.flows, 1) \o Indent(4) \o <<")", "\n">>)
            \o Indent(2) \o <<")", "\n">>
            \o <<")", "\n">>

\* A printer that reads the fields of Meta without the nil test.
ToSexprPanicsOnNilMeta(req) == req.Meta.isNil

\* ToSexpr aborts on a nil pointer: a step whose Kind is task or gate and
\* whose Task or Gate is nil.
ToSexprPanics(req) ==
    \E f \in DOMAIN req.Orchestrator.Flows :
        \E i \in 1..Len(req.Orchestrator.Flows[f].Steps) :
            LET st == req.Orchestrator.Flows[f].Steps[i]
            IN  \/ Str(st.Kind) = "task" /\ st.Task.isNil
                \/ Str(st.Kind) = "gate" /\ st.Gate.isNil

(* ------------------------------------------------------------------ *)
(* Input texts                                                         *)
(* ------------------------------------------------------------------ *)
P(x) == <<"(">> \o x \o <<")">>
Q(x) == <<"\"">> \o x \o <<"\"">>
Kw(name) == <<":", name>>

\* The end-to-end text of the grammar: clauses are direct children of
\* their section and tokens are separated by blanks.
EndToEndText ==
    P(<<"onboarding-request", " ">>
      \o P(Kw("meta") \o <<" ">> \o P(<<"request-id", " ">> \o Q(<<"r1">>)) \o <<" ">>
           \o P(<<"version", " ", "1">>))
      \o <<" ">>
      \o P(Kw("orchestrator") \o <<" ">>
           \o P(Kw("lifecycle") \o <<" ">> \o P(<<"states", " ", "draft", " ", "active">>)
                \o <<" ">> \o P(<<"initial", " ", "draft">>) \o <<" ">> \o P(<<"transitions">>))
           \o <<" ">>
           \o P(Kw("entities") \o <<" ">>
                \o P(<<"entity", " ">> \o Kw("id") \o <<" ">> \o Q(<<"e1">>) \o <<" ">>
                     \o Kw("type") \o <<" ", "LegalEntity", " ">>
                     \o P(<<"attrs", " ">> \o P(<<"name", " ">> \o Q(<<"Acme">>)))))))

\* The same clauses without any blank; the version is a quoted string
\* because a number cannot follow a word without a separator.
DirectText ==
    P(<<"onboarding-request">>
      \o P(Kw("meta") \o P(<<"request-id">> \o Q(<<"r1">>)) \o P(<<"version">> \o Q(<<"1">>)))
      \o P(Kw("orchestrator")
           \o P(Kw("lifecycle") \o P(<<"states">> \o Q(<<"draft">>) \o Q(<<"active">>))
                \o P(<<"initial">> \o Q(<<"draft">>)) \o P(<<"transitions">>))
           \o P(Kw("entities")
                \o P(<<"entity">> \o Kw("id") \o Q(<<"e1">>) \o Kw("type") \o Q(<<"LegalEntity">>)
                     \o P(<<"attrs">> \o P(<<"name">> \o Q(<<"Acme">>)))))))

\* Texts without blanks in the shape the mapper reads: the body of a
\* section is ONE list that holds the clauses.
MetaSection(clauses) == P(Kw("meta") \o P(clauses))
OrchSection(pairs) == P(Kw("orchestrator") \o P(pairs))
RequestText(sections) == P(<<"onboarding-request">> \o sections)

EntityClause(id, typ, attrs) ==
    P(<<"entity">> \o Kw("id") \o Q(<<id>>) \o Kw("type") \o Q(<<typ>>) \o P(<<"attrs">> \o attrs))

LifecyclePair ==
    P(Kw("lifecycle")
      \o P(P(<<"states">> \o Q(<<"draft">>) \o Q(<<"active">>)) \o P(<<"initial">> \o Q(<<"draft">>))
           \o P(<<"transitions">>)))

MetaText(ts) ==
    MetaSection(P(<<"request-id">> \o Q(<<"r1">>)) \o P(<<"version">> \o Q(<<"1">>)) \o ts)

OneEntityText ==
    RequestText(MetaText(<<>>)
        \o OrchSection(LifecyclePair
              \o P(Kw("entities") \o P(EntityClause("e1", "LegalEntity", P(<<"name">> \o Q(<<"Acme">>)))))))

TwoEntityText ==
    RequestText(MetaText(P(<<"created-at">> \o Q(<<DatePrefix, "1", ".", "5", "Z">>)))
        \o OrchSection(
              P(Kw("entities")
                \o P(EntityClause("e1", "LegalEntity",
                         P(<<"name">> \o Q(<<"Acme">>)) \o P(Q(<<"age">>) \o <<"4", "2">>))
                     \o EntityClause("e2", "Person", P(<<"name">> \o Q(<<"Bob">>)))))))

FullText ==
    RequestText(MetaText(<<>>)
        \o OrchSection(LifecyclePair
              \o P(Kw("entities") \o P(EntityClause("e1", "LegalEntity", P(<<"name">> \o Q(<<"Acme">>)))))
              \o P(Kw("resources")
                   \o P(P(<<"resource">> \o Kw("id") \o Q(<<"acct">>) \o Kw("type") \o Q(<<"Account">>)
                          \o P(<<"requires">> \o P(<<"entity">> \o Q(<<"e1">>)))
                          \o P(<<"config">> \o P(<<"currency">> \o Q(<<"EUR">>))))))
              \o P(Kw("flows")
                   \o P(P(<<"flow">> \o Kw("id") \o Q(<<"main">>)
                          \o P(<<"steps">>
                               \o P(<<"task">> \o Kw("id") \o Q(<<"t1">>) \o Kw("on") \o Q(<<"e1">>)
                                    \o Kw("op") \o Q(<<"verify">>)
                                    \o P(<<"args">> \o P(<<"level">> \o Q(<<"high">>))))
                               \o P(<<"gate">> \o Kw("id") \o Q(<<"g1">>)
                                    \o P(<<"when">> \o Q(<<"approved">>)))))))))

\* One entity whose attribute a is the bare atom and whose attribute b is
\* the quoted string with the same characters.
ValueText(atom) ==
    RequestText(OrchSection(
        P(Kw("entities")
          \o P(EntityClause("e1", "T", P(Q(<<"a">>) \o atom) \o P(Q(<<"b">>) \o Q(atom)))))))

BigNumber == [i \in 1..21 |-> "9"]

NumberAtoms == { <<"4", "2">>, <<"0", "0", "7">>, <<"3", ".", "1", "4">>, BigNumber, MaxUint64 }
BoolAtoms == { <<"true">>, <<"false">> }
SymbolAtoms == { <<"draft">>, <<"kyc-cleared">> }
ValueAtoms == NumberAtoms \cup BoolAtoms \cup SymbolAtoms

\* Texts with empty lists and short clauses.
EmptyEntityText == RequestText(OrchSection(P(Kw("entities") \o P(P(<<>>)))))
EmptyWhenText ==
    RequestText(OrchSection(
        P(Kw("flows")
          \o P(P(<<"flow">> \o Kw("id") \o Q(<<"main">>)
                 \o P(<<"steps">> \o P(<<"gate">> \o Kw("id") \o Q(<<"g1">>) \o P(<<"when">>))))))))
EmptySectionsText == RequestText(P(<<>>) \o P(Kw("meta")) \o OrchSection(P(Kw("entities") \o P(<<>>))))

\* Texts that are not a request.
WrongHeadText == P(<<"request">> \o MetaText(<<>>))
AtomRootText == <<"onboarding-request">>
EmptyRootText == P(<<>>)
StringHeadText == P(Q(<<"onboarding-request">>))
UnmatchedText == <<"(", "onboarding-request">> \o MetaText(<<>>)
UnmatchedBlankText == <<"(", "onboarding-request", " ", "(">> \o Kw("meta")
UnterminatedText == <<"(", "onboarding-request">> \o P(Kw("meta") \o P(P(<<"request-id", "\"", "r1">>)))
ExtraCloseText == RequestText(<<>>) \o <<")">>
CommentText == RequestText(<<>>) \o <<";", "done", "\n">>

\* Timestamp clauses of :meta: the second d of the model's minute, or a
\* text that is no RFC-3339 time.
CreatedClause(d) == P(<<"created-at">> \o Q(<<DatePrefix, d, "Z">>))
UpdatedClause(d) == P(<<"updated-at">> \o Q(<<DatePrefix, d, "Z">>))
BadCreatedClause == P(<<"created-at">> \o Q(<<"yesterday">>))
BadUpdatedClause == P(<<"updated-at">> \o Q(<<"2024-13-01">>))

TimesText(ts) == RequestText(MetaText(ts))

ValidTimes ==
    { <<>>, CreatedClause("1"), UpdatedClause("1"),
      CreatedClause("1") \o UpdatedClause("2"), CreatedClause("2") \o UpdatedClause("1"),
      UpdatedClause("1") \o CreatedClause("2"), CreatedClause("2") \o UpdatedClause("2") }

\* Clauses with an unparsable timestamp, next to the same clauses without it.
BadTime(bad, absent, created, updated) ==
    [bad |-> bad, absent |-> absent, created |-> created, updated |-> updated]
BadTimes ==
    { BadTime(BadCreatedClause, <<>>, TRUE, FALSE),
      BadTime(BadUpdatedClause, <<>>, FALSE, TRUE),
      BadTime(CreatedClause("1") \o BadUpdatedClause, CreatedClause("1"), FALSE, TRUE),
      BadTime(BadCreatedClause \o UpdatedClause("1"), UpdatedClause("1"), TRUE, FALSE),
      BadTime(BadCreatedClause \o BadUpdatedClause, <<>>, TRUE, TRUE) }

TimesTexts == { TimesText(ts) : ts \in ValidTimes } \cup { TimesText(p.bad) : p \in BadTimes }

\* A lifecycle with the states sts, in that order, and the initial state
\* ini (no initial clause when ini is empty).
RECURSIVE QuotedAll(_)
QuotedAll(ws) == IF ws = <<>> THEN <<>> ELSE Q(<<Head(ws)>>) \o QuotedAll(Tail(ws))

LifecycleOf(sts, ini) ==
    P(Kw("lifecycle")
      \o P(P(<<"states">> \o QuotedAll(sts))
           \o (IF ini = <<>> THEN <<>> ELSE P(<<"initial">> \o Q(ini)))
           \o P(<<"transitions">>)))

LifecycleText(lc) == RequestText(OrchSection(LifecycleOf(lc.sts, lc.ini)))

LifecycleSpecs ==
    { [sts |-> <<"draft", "active">>, ini |-> <<"draft">>],
      [sts |-> <<"draft", "active">>, ini |-> <<"closed">>],
      [sts |-> <<"b", "a", "c">>, ini |-> <<"a">>],
      [sts |-> <<"draft">>, ini |-> <<>>],
      [sts |-> <<"open", "closed">>, ini |-> <<>>],
      [sts |-> <<>>, ini |-> <<"closed">>] }

LifecycleTexts == { LifecycleText(lc) : lc \in LifecycleSpecs }

\* One flow "main" whose steps clause holds a step clause of each kind of
\* ks, in that order.
StepClause(kind) ==
    IF kind = "task"
    THEN P(<<"task">> \o Kw("id") \o Q(<<"t1">>) \o Kw("on") \o Q(<<"e1">>) \o Kw("op") \o Q(<<"verify">>))
    ELSE IF kind = "gate"
    THEN P(<<"gate">> \o Kw("id") \o Q(<<"g1">>) \o P(<<"when">> \o Q(<<"approved">>)))
    ELSE IF kind = "fork"
    THEN P(<<"fork">> \o Kw("id") \o Q(<<"f1">>) \o P(<<"branches">> \o Q(<<"t1">>) \o Q(<<"t2">>)))
    ELSE P(<<"join">> \o Kw("id") \o Q(<<"j1">>) \o P(<<"after">> \o Q(<<"f1">>)))

RECURSIVE StepClauses(_)
StepClauses(ks) == IF ks = <<>> THEN <<>> ELSE StepClause(Head(ks)) \o StepClauses(Tail(ks))

StepsText(ks) ==
    RequestText(OrchSection(
        P(Kw("flows") \o P(P(<<"flow">> \o Kw("id") \o Q(<<"main">>) \o P(<<"steps">> \o StepClauses(ks)))))))

StepKindSeqs ==
    { <<>>, <<"task", "gate">>, <<"gate", "task", "task">>, <<"fork">>,
      <<"task", "fork", "join", "gate">> }

StepsTexts == { StepsText(ks) : ks \in StepKindSeqs }

\* Entity clauses given by their ids, in that order; "" stands for a
\* clause without :id, and the k-th clause has the type Tk.
TypeOf(k) == <<"T", DigitOf(k)>>

RECURSIVE EntityClauses(_, _)
EntityClauses(ids, k) ==
    IF k > Len(ids) THEN <<>>
    ELSE P(<<"entity">> \o (IF ids[k] = "" THEN <<>> ELSE Kw("id") \o Q(<<ids[k]>>))
           \o Kw("type") \o Q(TypeOf(k)) \o P(<<"attrs">>))
         \o EntityClauses(ids, k + 1)

EntitiesText(ids) == RequestText(OrchSection(P(Kw("entities") \o P(EntityClauses(ids, 1)))))

EntityIds == { "", "e1", "e2" }
EntityIdSeqs ==
    UNION { [1..n -> EntityIds] : n \in 1..2 }
        \cup { <<"e1", "e2", "e1">>, <<"", "e1", "">>, <<"e1", "e1", "e1">> }

EntitiesTexts == { EntitiesText(ids) : ids \in EntityIdSeqs }

\* An entity, a resource, a flow, a task and a gate, each without the
\* keyword fields named in drop.
KeywordFields == { "eid", "etype", "rid", "rtype", "fid", "tid", "ton", "top", "gid" }

KwIf(drop, f, name, val) == IF f \in drop THEN <<>> ELSE Kw(name) \o Q(<<val>>)

KeywordText(drop) ==
    RequestText(OrchSection(
        P(Kw("entities")
          \o P(P(<<"entity">> \o KwIf(drop, "eid", "id", "e1") \o KwIf(drop, "etype", "type", "LegalEntity")
                 \o P(<<"attrs">> \o P(<<"name">> \o Q(<<"Acme">>))))))
        \o P(Kw("resources")
             \o P(P(<<"resource">> \o P(<<"requires">> \o P(<<"entity">> \o Q(<<"e1">>)))
                    \o KwIf(drop, "rid", "id", "acct") \o KwIf(drop, "rtype", "type", "Account"))))
        \o P(Kw("flows")
             \o P(P(<<"flow">> \o KwIf(drop, "fid", "id", "main")
                    \o P(<<"steps">>
                         \o P(<<"task">> \o KwIf(drop, "tid", "id", "t1") \o KwIf(drop, "ton", "on", "e1")
                              \o KwIf(drop, "top", "op", "verify")
                              \o P(<<"args">> \o P(<<"level">> \o Q(<<"high">>))))
                         \o P(<<"gate">> \o KwIf(drop, "gid", "id", "g1")
                              \o P(<<"when">> \o Q(<<"approved">>)))))))))

\* The Request of KeywordText(drop) when a dropped field is the empty string.
FieldIf(drop, f, val) == IF f \in drop THEN <<>> ELSE <<val>>

KeywordDoc(drop) ==
    LET eid == FieldIf(drop, "eid", "e1")
        rid == FieldIf(drop, "rid", "acct")
        fid == FieldIf(drop, "fid", "main")
        ent == Entity(eid, FieldIf(drop, "etype", "LegalEntity"),
                      MapPut(EmptyMap, <<"name">>, AttrVal(GoVal("string", <<"Acme">>), NoProvenance)))
        res == Resource(rid, FieldIf(drop, "rtype", "Account"),
                        <<RequireItem(<<"entity">>, <<"e1">>)>>, EmptyMap)
        task == Task(FieldIf(drop, "tid", "t1"), FieldIf(drop, "ton", "e1"),
                     FieldIf(drop, "top", "verify"),
                     MapPut(EmptyMap, <<"level">>, GoVal("string", <<"high">>)))
        gate == Gate(FieldIf(drop, "gid", "g1"), <<"approved">>)
        flow == Flow(fid, << Step(<<"task">>, task, NilGate, NilRef, NilRef),
                             Step(<<"gate">>, NilTask, gate, NilRef, NilRef) >>)
    IN  Request(NilMeta,
                Orchestrator(Lifecycle(<<>>, <<>>), MapPut(EmptyMap, eid, ent),
                             MapPut(EmptyMap, rid, res), MapPut(EmptyMap, fid, flow)))

DropSets == { {} } \cup { {f} : f \in KeywordFields } \cup { KeywordFields }

KeywordTexts == { KeywordText(d) : d \in DropSets }

\* A request of two sections with one more section x after the first k.
BaseSections ==
    << MetaText(CreatedClause("1")),
       OrchSection(P(Kw("entities") \o P(EntityClause("e1", "LegalEntity", P(<<"name">> \o Q(<<"Acme">>)))))) >>

RECURSIVE Concat(_)
Concat(ss) == IF ss = <<>> THEN <<>> ELSE Head(ss) \o Concat(Tail(ss))

BaseText == RequestText(Concat(BaseSections))

WithSection(k, x) ==
    RequestText(Concat(SubSeq(BaseSections, 1, k)) \o x
                    \o Concat(SubSeq(BaseSections, k + 1, Len(BaseSections))))

\* Sections whose head is none of the symbols :meta, :orchestrator, :catalog.
ExtraSections ==
    { P(Kw("future") \o P(P(<<"request-id">> \o Q(<<"zz">>)))),
      P(Kw("audit") \o Q(<<"on">>) \o P(Kw("entities") \o P(<<>>))),
      P(<<"notes">> \o Q(<<"hello">>)),
      P(Q(<<":", "meta">>) \o P(P(<<"request-id">> \o Q(<<"zz">>)))),
      P(P(Kw("meta")) \o P(P(<<"request-id">> \o Q(<<"zz">>)))),
      P(Kw("solo")),
      P(<<>>) }

SectionTexts == { BaseText } \cup { WithSection(k, x) : k \in 0..Len(BaseSections), x \in ExtraSections }

\* Texts with the filler x put between two tokens: after the first k
\* tokens of a request without sections, or of a list that is no request.
Fillers == { <<" ">>, <<"\n">>, <<"\t", " ">>, <<";", "note", "\n">> }

FilledBases == { <<"(", "onboarding-request", ")">>, <<"(", "request", ")">> }

Filled(b, k, x) == SubSeq(b, 1, k) \o x \o SubSeq(b, k + 1, Len(b))

FilledTexts == { Filled(b, k, x) : b \in FilledBases, k \in 1..2, x \in Fillers }

\* A complete top-level node followed by one more token, and texts with
\* a ')' that closes nothing.
RootTexts == { RequestText(<<>>), TimesText(<<>>), Q(<<"s">>), P(<<>>) }
TrailingTokens == { <<"x">>, Kw("meta"), <<"7">>, Q(<<"s">>), <<"(">>, P(<<>>), P(<<"a">>) }
TrailingTexts == { r \o x : r \in RootTexts, x \in TrailingTokens }
UnmatchedCloseTexts ==
    { <<")">>, <<")">> \o RequestText(<<>>), RequestText(<<>>) \o <<")">>,
      P(<<"a">> \o P(<<>>) \o <<")">>) \o <<")">>, <<"a", ")">> }

\* Texts of one or two pieces over the characters the grammar text uses.
Pieces ==
    { <<"(">>, <<")">>, Q(<<"s">>), <<"a">>, <<"7">>, <<"_">>, <<"-">>, <<":">>, <<".">>,
      <<";", "c", "\n">>, <<" ">> }
PieceTexts == Pieces \cup { x \o y : x \in Pieces, y \in Pieces }

GrammarTexts == { EndToEndText }
CompactTexts == { RequestText(<<>>), DirectText, OneEntityText, TwoEntityText, FullText }
ShortTexts == { EmptyEntityText, EmptyWhenText, EmptySectionsText }
RejectTexts == { WrongHeadText, AtomRootText, EmptyRootText, StringHeadText, UnmatchedText,
                 UnmatchedBlankText, UnterminatedText, ExtraCloseText, CommentText }

TextPool ==
    GrammarTexts \cup CompactTexts \cup ShortTexts \cup RejectTexts
        \cup { ValueText(a) : a \in ValueAtoms }
        \cup TimesTexts \cup LifecycleTexts \cup StepsTexts \cup EntitiesTexts
        \cup KeywordTexts \cup SectionTexts \cup FilledBases \cup FilledTexts
        \cup TrailingTexts \cup UnmatchedCloseTexts \cup PieceTexts

(* ------------------------------------------------------------------ *)
(* Requests built by a caller rather than parsed                       *)
(* ------------------------------------------------------------------ *)
EmptyOrchestrator == Orchestrator(Lifecycle(<<>>, <<>>), EmptyMap, EmptyMap, EmptyMap)

FourKindSteps ==
    << Step(<<"task">>, Task(<<"t1">>, <<"e1">>, <<"verify">>, EmptyMap), NilGate, NilRef, NilRef),
       Step(<<"gate">>, NilTask, Gate(<<"g1">>, <<"approved">>), NilRef, NilRef),
       Step(<<"fork">>, NilTask, NilGate, Ref(<<"f1">>, <<<<"t1">>, <<"t2">>>>), NilRef),
       Step(<<"join">>, NilTask, NilGate, NilRef, Ref(<<"j1">>, <<<<"t1">>>>)) >>

BuiltEmpty == Request(NilMeta, EmptyOrchestrator)
BuiltNoSteps ==
    Request(Meta(<<"r2">>, <<"2">>, ZeroTime, ZeroTime),
            [EmptyOrchestrator EXCEPT !.Flows = MapPut(EmptyMap, <<"main">>, Flow(<<"main">>, <<>>))])
BuiltFourKinds ==
    Request(NilMeta,
            [EmptyOrchestrator EXCEPT
                !.Entities = MapPut(EmptyMap, <<"e1">>, Entity(<<"e1">>, <<"Person">>, EmptyMap)),
                !.Flows = MapPut(EmptyMap, <<"main">>, Flow(<<"main">>, FourKindSteps))])
\* Not well formed: the Kind names a variant that is not populated.
BuiltNilTask ==
    Request(NilMeta,
            [EmptyOrchestrator EXCEPT
                !.Flows = MapPut(EmptyMap, <<"main">>,
                              Flow(<<"main">>, <<Step(<<"task">>, NilTask, NilGate, NilRef, NilRef)>>))])

\* A Lifecycle with an initial state and no states, and one with a transition.
BuiltInitialOnly ==
    Request(NilMeta, [EmptyOrchestrator EXCEPT !.Lifecycle = Lifecycle(<<>>, <<"active">>)])
BuiltTransitions ==
    Request(NilMeta,
            [EmptyOrchestrator EXCEPT
                !.Lifecycle = [Lifecycle(<<<<"draft">>, <<"active">>>>, <<"draft">>) EXCEPT
                                  !.Transitions = <<Transition(<<"draft">>, <<"active">>)>>]])

DocPool ==
    { BuiltEmpty, BuiltNoSteps, BuiltFourKinds, BuiltNilTask, BuiltInitialOnly, BuiltTransitions }

StepKinds == { "task", "gate", "fork", "join" }

\* Exactly the variant the Kind names is populated.
WellFormedStep(st) ==
    /\ Str(st.Kind) \in StepKinds
    /\ st.Task.isNil <=> Str(st.Kind) # "task"
    /\ st.Gate.isNil <=> Str(st.Kind) # "gate"
    /\ st.Fork.isNil <=> Str(st.Kind) # "fork"
    /\ st.Join.isNil <=> Str(st.Kind) # "join"

WellFormed(req) ==
    \A f \in DOMAIN req.Orchestrator.Flows :
        \A i \in 1..Len(req.Orchestrator.Flows[f].Steps) :
            WellFormedStep(req.Orchestrator.Flows[f].Steps[i])

(* ------------------------------------------------------------------ *)
(* File store: one directory per id, a file per version and "latest"   *)
(* ------------------------------------------------------------------ *)
\* fmt.Sprintf("%d", version); a uint64 is held as its decimal digits
FormatUint(version) == version

\* A version path that leaves the version out of the file name.
verPathOneFile(id, version) == [dir |-> id, name |-> <<"v", ".sexpr">>]

verPath(id, version) == [dir |-> id, name |-> <<"v">> \o FormatUint(version) \o <<".sexpr">>]
\* One latest file for the whole base directory.
latestPathShared(id) == [dir |-> <<>>, name |-> <<"latest">>]

latestPath(id) == [dir |-> id, name |-> <<"latest">>]

\* What Put writes into the latest file.
LatestContent(version) == FormatUint(version)

\* os.WriteFile step by step.  The open (O_WRONLY|O_CREATE|O_TRUNC) makes
\* the file or empties it; the write puts the data at offset 0 of what
\* the file holds by then, which is more than nothing when another writer
\* has written to the file since the open.
OpenFile(fs, path) == MapPut(fs, path, <<>>)
WriteAll(fs, path, data) ==
    MapPut(fs, path, data \o SubSeq(MapGet(fs, path, <<>>), Len(data) + 1,
                                    Len(MapGet(fs, path, <<>>))))

\* os.WriteFile that succeeds
WriteFile(fs, path, content) == MapPut(fs, path, content)

\* os.WriteFile that fails: either the file could not be opened and is as
\* before, or it was opened, which truncates it, and the write failed.
FailedWrites(fs, path) == { fs, MapPut(fs, path, <<>>) }

PutOutcomes == { "ok", "mkdir", "version", "latest" }

\* A Put that moves the latest pointer only forward: it leaves a pointer
\* that names a higher version as it is.
PutKeepsHighest(fs, id, version, content, outcome) ==
    IF outcome = "mkdir" THEN { fs }
    ELSE IF outcome = "version" THEN { fs, MapPut(fs, verPath(id, version), <<>>) }
    ELSE IF outcome = "latest"
    THEN { MapPut(fs, verPath(id, version), content),
           MapPut(MapPut(fs, verPath(id, version), content), latestPath(id), <<>>) }
    ELSE IF latestPath(id) \in DOMAIN fs /\ ~DigitsLeq(fs[latestPath(id)], version)
    THEN { MapPut(fs, verPath(id, version), content) }
    ELSE { MapPut(MapPut(fs, verPath(id, version), content), latestPath(id), version) }

\* The file systems FileStore.Put can leave behind, per outcome: all
\* three steps succeed, or MkdirAll, the version write or the latest
\* write fails.
Put(fs, id, version, content, outcome) ==
    IF outcome = "mkdir" THEN { fs }
    ELSE IF outcome = "version" THEN FailedWrites(fs, verPath(id, version))
    ELSE IF outcome = "latest"
    THEN FailedWrites(WriteFile(fs, verPath(id, version), content), latestPath(id))
    ELSE { WriteFile(WriteFile(fs, verPath(id, version), content),
                     latestPath(id), LatestContent(version)) }

\* strings.TrimSpace
RECURSIVE TrimSpace(_)
TrimSpace(us) ==
    IF us # <<>> /\ Head(us) \in WhitespaceChars THEN TrimSpace(Tail(us))
    ELSE IF us # <<>> /\ us[Len(us)] \in WhitespaceChars
    THEN TrimSpace(SubSeq(us, 1, Len(us) - 1))
    ELSE us

NotFound == [ok |-> FALSE, version |-> <<"0">>, text |-> <<>>]

\* FileStore.Get
Get(fs, id, version) ==
    IF verPath(id, version) \notin DOMAIN fs THEN NotFound
    ELSE [ok |-> TRUE, version |-> version, text |-> fs[verPath(id, version)]]

\* FileStore.GetLatest
GetLatest(fs, id) ==
    IF latestPath(id) \notin DOMAIN fs THEN NotFound
    ELSE LET v == ParseUint(TrimSpace(fs[latestPath(id)]))
         IN  IF v.err # "" THEN NotFound ELSE Get(fs, id, v.v)

(* ------------------------------------------------------------------ *)
(* Manager                                                             *)
(* ------------------------------------------------------------------ *)
\* sha256.Sum256 in hex, taken as free of collisions: the digest stands
\* for the bytes it was computed from.
Sha256Hex(s) == <<"digest">> \o s

\* A hash of the text before the last unit of it was printed.
hashOfPrefix(s) == <<"sha256:">> \o Sha256Hex(SubSeq(s, 1, Len(s) - 1))

hash(s) == <<"sha256:">> \o Sha256Hex(s)

\* Manager.ValidateText: the issues it lists, none when the text parses.
ValidateText(text, now) ==
    With(Parse(text, now).kind, LAMBDA k : IF k = "ok" THEN <<>> ELSE <<k>>)

\* The Meta CreateRequest gives the parsed document.
UpdateMeta(req, id, now) ==
    LET m0 == IF req.Meta.isNil THEN Meta(<<>>, <<"0">>, ZeroTime, ZeroTime) ELSE req.Meta
        m1 == [m0 EXCEPT !.RequestID = id, !.Version = <<"1">>]
        m2 == IF IsZero(m1.CreatedAt) THEN [m1 EXCEPT !.CreatedAt = now] ELSE m1
    IN  [req EXCEPT !.Meta = [m2 EXCEPT !.UpdatedAt = now]]

\* What a call returns: CreateRequest gives (version, hash, err), Get and
\* GetLatest give (version, text, err), Put gives err.
Ret(kind, version, hsh, txt) == [kind |-> kind, version |-> version, hash |-> hsh, text |-> txt]
NoRet == Ret("none", <<"0">>, <<>>, <<>>)

(* ------------------------------------------------------------------ *)
(* Generator: Generate builds a Request from client records            *)
(* ------------------------------------------------------------------ *)
\* ast.Value, ast.KVPair, ast.AttrVal, ast.RequireItem of the slice-based
\* declarations; t is "String" or "Symbol".
Value(t, s) == [t |-> t, s |-> s]
KVPair(key, value) == [Key |-> key, Value |-> value]
AttrValOf(key, value, provenance) == [Key |-> key, Value |-> value, Provenance |-> provenance]
RequireItemOf(kind, id) == [Kind |-> kind, ID |-> id]

\* ast.Step with its Task or its Gate set
TaskStep(id, on, op, args) == [Kind |-> "task", ID |-> id, On |-> on, Op |-> op, Args |-> args]
GateStep(id, cond) == [Kind |-> "gate", ID |-> id, Condition |-> cond]

\* ClientEntity, ProductSpec, ResourceSpec, GenerateRequest.  A map field
\* (Attributes, Config) is the sequence of its entries; it holds at most
\* one entry, so that its range loop has one order.
ClientEntity(id, name, role, typ, lei, country, attributes) ==
    [ID |-> id, Name |-> name, Role |-> role, EntityType |-> typ, LEI |-> lei,
     Country |-> country, Attributes |-> attributes]
ProductSpec(id, typ, currency) == [ID |-> id, ProductType |-> typ, Currency |-> currency]
ResourceSpec(id, typ, requires, config) ==
    [ID |-> id, Type |-> typ, Requires |-> requires, Config |-> config]
GenerateRequest(id, entities, products, resources) ==
    [RequestID |-> id, Entities |-> entities, Products |-> products, Resources |-> resources]

\* An entry of a map[string]interface{}: the value is a string or not.
MapEntry(key, isString, value) == [key |-> key, isString |-> isString, value |-> value]

\* Generator.validate: the Field of the ValidationError, "" for nil
validate(req) ==
    IF req.RequestID = <<>> THEN "RequestID"
    ELSE IF Len(req.Entities) = 0 THEN "Entities"
    ELSE ""

\* Generator.createBaseRequest
createBaseRequest(req, now) ==
    [Meta |-> Meta(req.RequestID, <<"1">>, now, now),
     Orchestrator |->
        [Lifecycle |->
            [States |-> << <<"draft">>, <<"validated">>, <<"in-progress">>,
                           <<"kyc-complete">>, <<"onboarded">>, <<"failed">> >>,
             Initial |-> <<"draft">>,
             Transitions |-> <<>>],
         Entities |-> <<>>,
         Resources |-> <<>>,
         Flows |-> <<>>]]

\* The string-valued entries of a map, as attributes or as config pairs.
RECURSIVE StringEntries(_)
StringEntries(es) ==
    IF es = <<>> THEN <<>>
    ELSE (IF Head(es).isString THEN <<Head(es)>> ELSE <<>>) \o StringEntries(Tail(es))

\* The ast.Entity addEntities appends for one ClientEntity.
EntityOf(ce) ==
    [ID |-> ce.ID,
     Typ |-> ce.EntityType,
     Attrs |->
        << AttrValOf(<<"name">>, Value("String", ce.Name), <<"client-provided">>),
           AttrValOf(<<"role">>, Value("Symbol", ce.Role), <<"system-assigned">>) >>
        \o (IF ce.Country # <<>>
            THEN <<AttrValOf(<<"country">>, Value("String", ce.Country), <<"client-provided">>)>>
            ELSE <<>>)
        \o (IF ce.LEI # <<>>
            THEN <<AttrValOf(<<"lei">>, Value("String", ce.LEI), <<"client-provided">>)>>
            ELSE <<>>)
        \o [i \in 1..Len(StringEntries(ce.Attributes)) |->
               AttrValOf(StringEntries(ce.Attributes)[i].key,
                         Value("String", StringEntries(ce.Attributes)[i].value),
                         <<"client-provided">>)]]

\* Generator.addEntities
addEntities(dslReq, entities) ==
    [dslReq EXCEPT !.Orchestrator.Entities =
        @ \o [i \in 1..Len(entities) |-> EntityOf(entities[i])]]

\* The ast.Resource addResources appends for a product: it requires the
\* first entity, when there is one.
ResourceOfProduct(product, entities) ==
    [ID |-> product.ID,
     Typ |-> product.ProductType,
     Requires |-> IF Len(entities) > 0 THEN <<RequireItemOf(<<"entity">>, entities[1].ID)>>
                  ELSE <<>>,
     Config |-> IF product.Currency # <<>>
                THEN <<KVPair(<<"currency">>, Value("String", product.Currency))>>
                ELSE <<>>]

\* The ast.Resource addResources appends for a ResourceSpec.
ResourceOfSpec(resSpec) ==
    [ID |-> resSpec.ID,
     Typ |-> resSpec.Type,
     Requires |-> [i \in 1..Len(resSpec.Requires) |->
                      RequireItemOf(<<"entity">>, resSpec.Requires[i])],
     Config |-> [i \in 1..Len(StringEntries(resSpec.Config)) |->
                    KVPair(StringEntries(resSpec.Config)[i].key,
                           Value("String", StringEntries(resSpec.Config)[i].value))]]

\* Generator.addResources: the products first, then the resources
addResources(dslReq, products, resources) ==
    [dslReq EXCEPT !.Orchestrator.Resources =
        @ \o [i \in 1..Len(products) |->
                 ResourceOfProduct(products[i], dslReq.Orchestrator.Entities)]
          \o [i \in 1..Len(resources) |-> ResourceOfSpec(resources[i])]]

\* sanitizeID: ':' becomes '-'; letters, digits, '-' and '_' stay; every
\* other character is dropped.
RECURSIVE sanitizeID(_)
sanitizeID(id) ==
    IF id = <<>> THEN <<>>
    ELSE (IF Head(id) = ":" THEN <<"-">>
          ELSE IF IsIdentChar(Head(id)) THEN <<Head(id)>>
          ELSE <<>>) \o sanitizeID(Tail(id))

\* Generator.getSetupOperation
getSetupOperation(resourceType) ==
    IF resourceType \in { <<"CustodySafekeeping">>, <<"custody">> } THEN <<"create-account">>
    ELSE IF resourceType = <<"investment-management">> THEN <<"setup-mandate">>
    ELSE IF resourceType = <<"reporting">> THEN <<"configure-reporting">>
    ELSE <<"initialize">>

\* The role generateFlows reads off an entity: the value of its first
\* attribute with the key role, "" when it has none.
RoleOf(entity) ==
    LET is == { i \in 1..Len(entity.Attrs) : entity.Attrs[i].Key = <<"role">> }
    IN  IF is = {} THEN <<>>
        ELSE entity.Attrs[CHOOSE i \in is : \A j \in is : i <= j].Value.s

VerifyStep(entity) ==
    TaskStep(<<"verify", "-">> \o sanitizeID(entity.ID), <<"kyc-service">>, <<"verify-entity">>,
             << KVPair(<<"entity-id">>, Value("String", entity.ID)),
                KVPair(<<"verification-level">>,
                       Value("String",
                             IF RoleOf(entity) \in { <<"sicav">>, <<"management-company">> }
                             THEN <<"enhanced">> ELSE <<"standard">>)) >>)

AmlStep(entity) ==
    TaskStep(<<"aml-check", "-">> \o sanitizeID(entity.ID), <<"aml-service">>, <<"screen-entity">>,
             << KVPair(<<"entity-id">>, Value("String", entity.ID)) >>)

ComplianceGate == GateStep(<<"compliance-review">>, <<"all-kyc-complete AND all-aml-clear">>)

SetupStep(resource) ==
    TaskStep(<<"setup", "-">> \o sanitizeID(resource.ID), resource.ID,
             getSetupOperation(resource.Typ),
             << KVPair(<<"resource-id">>, Value("String", resource.ID)) >>)

\* A main flow that takes the entities one by one: the verify task and
\* the AML task of an entity follow each other.
generateFlowsPerEntity(dslReq) ==
    LET es == dslReq.Orchestrator.Entities
        rs == dslReq.Orchestrator.Resources
        steps == [i \in 1..(2 * Len(es)) |->
                     IF i % 2 = 1 THEN VerifyStep(es[(i + 1) \div 2]) ELSE AmlStep(es[i \div 2])]
                 \o <<ComplianceGate>>
                 \o [i \in 1..Len(rs) |-> SetupStep(rs[i])]
    IN  [dslReq EXCEPT !.Orchestrator.Flows = @ \o <<Flow(<<"main">>, steps)>>]

\* Generator.generateFlows
generateFlows(dslReq) ==
    LET es == dslReq.Orchestrator.Entities
        rs == dslReq.Orchestrator.Resources
        steps == [i \in 1..Len(es) |-> VerifyStep(es[i])]
                 \o [i \in 1..Len(es) |-> AmlStep(es[i])]
                 \o <<ComplianceGate>>
                 \o [i \in 1..Len(rs) |-> SetupStep(rs[i])]
    IN  [dslReq EXCEPT !.Orchestrator.Flows = @ \o <<Flow(<<"main">>, steps)>>]

\* printValue of the slice-based printer, for String and Symbol values
printValueOf(v) == IF v.t = "String" THEN Quote(v.s) ELSE v.s

\* ToSexpr of the slice-based printer, which Generate calls: the Meta, the
\* lifecycle, and the entities, resources and flows in slice order.
ToSexprOfSlices(req) ==
    LET o == req.Orchestrator
        states == Concat([i \in 1..Len(o.Lifecycle.States) |-> <<" ">> \o o.Lifecycle.States[i]])
        attrs(e) == Concat([i \in 1..Len(e.Attrs) |->
                        Indent(10) \o <<"(">> \o e.Attrs[i].Key \o <<" ">>
                            \o printValueOf(e.Attrs[i].Value) \o <<")", "\n">>])
        entities == Concat([i \in 1..Len(o.Entities) |->
                        Indent(6) \o <<"(", "entity", " ", ":", "id", " ">> \o Quote(o.Entities[i].ID)
                            \o <<" ", ":", "type", " ">> \o o.Entities[i].Typ \o <<"\n">>
                            \o Indent(8) \o <<"(", "attrs", "\n">>
                            \o attrs(o.Entities[i])
                            \o Indent(8) \o <<")", ")", "\n">>])
        resources == Concat([i \in 1..Len(o.Resources) |->
                        Indent(6) \o <<"(", "resource", " ", ":", "id", " ">>
                            \o Quote(o.Resources[i].ID)
                            \o <<" ", ":", "type", " ">> \o o.Resources[i].Typ \o <<")", "\n">>])
        step(s) == IF s.Kind = "task"
                   THEN Indent(10) \o <<"(", "task", " ", ":", "id", " ">> \o Quote(s.ID)
                            \o <<" ", ":", "on", " ">> \o Quote(s.On)
                            \o <<" ", ":", "op", " ">> \o s.Op \o <<")", "\n">>
                   ELSE Indent(10) \o <<"(", "gate", " ", ":", "id", " ">> \o Quote(s.ID)
                            \o <<" ", "(", "when", " ">> \o Quote(s.Condition) \o <<")", ")", "\n">>
        flows == Concat([i \in 1..Len(o.Flows) |->
                        Indent(6) \o <<"(", "flow", " ", ":", "id", " ">> \o Quote(o.Flows[i].ID)
                            \o <<"\n">> \o Indent(8) \o <<"(", "steps", "\n">>
                            \o Concat([j \in 1..Len(o.Flows[i].Steps) |-> step(o.Flows[i].Steps[j])])
                            \o Indent(8) \o <<")", ")", "\n">>])
    IN  <<"(", "onboarding-request", "\n">>
            \o Indent(2) \o <<"(", ":", "meta", "\n">>
            \o Indent(4) \o <<"(", "request-id", " ">> \o Quote(req.Meta.RequestID) \o <<")", "\n">>
            \o Indent(4) \o <<"(", "version", " ">> \o req.Meta.Version \o <<")">>
            \o (IF ~IsZero(req.Meta.CreatedAt)
                THEN <<"\n">> \o Indent(4) \o <<"(", "created-at", " ">>
                         \o Quote(TimeFormat(req.Meta.CreatedAt)) \o <<")">>
                ELSE <<>>)
            \o (IF ~IsZero(req.Meta.UpdatedAt)
                THEN <<"\n">> \o Indent(4) \o <<"(", "updated-at", " ">>
                         \o Quote(TimeFormat(req.Meta.UpdatedAt)) \o <<")">>
                ELSE <<>>)
            \o <<")", "\n">>
            \o Indent(2) \o <<"(", ":", "orchestrator", "\n">>
            \o Indent(4) \o <<"(", ":", "lifecycle", "\n">>
            \o Indent(6) \o <<"(", "states">>
            \o (IF Len(o.Lifecycle.States) = 0 THEN DefaultStates ELSE states)
            \o <<")", "\n">>
            \o Indent(6) \o <<"(", "initial", " ">>
            \o (IF o.Lifecycle.Initial = <<>> THEN <<"draft">> ELSE o.Lifecycle.Initial)
            \o <<")", "\n">>
            \o Indent(6) \o <<"(", "transitions", ")", ")", "\n">>
            \o (IF Len(o.Entities) > 0
                THEN Indent(4) \o <<"(", ":", "entities", "\n">> \o entities
                         \o Indent(4) \o <<")", "\n">>
                ELSE <<>>)
            \o (IF Len(o.Resources) > 0
                THEN Indent(4) \o <<"(", ":", "resources", "\n">> \o resources
                         \o Indent(4) \o <<")", "\n">>
                ELSE <<>>)
            \o (IF Len(o.Flows) > 0
                THEN Indent(4) \o <<"(", ":", "flows", "\n">> \o flows
                         \o Indent(4) \o <<")", ")", "\n">>
                ELSE <<>>)
            \o Indent(2) \o <<")", "\n">>
            \o <<")", "\n">>

\* What Generate returns: a ValidationError and no response, or the
\* response; built is the Request it printed (nothing when it built none).
NoResponse ==
    [RequestID |-> <<>>, DSL |-> <<>>, Version |-> <<"0">>, EntitiesAdded |-> 0,
     ResourcesAdded |-> 0, FlowsGenerated |-> 0]
NoGenerated == [kind |-> "none", field |-> "", built |-> <<>>, response |-> NoResponse]

\* Generator.Generate
Generate(req, now) ==
    IF validate(req) # ""
    THEN [kind |-> "ValidationError", field |-> validate(req), built |-> <<>>,
          response |-> NoResponse]
    ELSE With(generateFlows(addResources(addEntities(createBaseRequest(req, now), req.Entities),
                                         req.Products, req.Resources)),
              LAMBDA dslRequest :
                  [kind |-> "ok", field |-> "", built |-> <<dslRequest>>,
                   response |->
                      [RequestID |-> req.RequestID,
                       DSL |-> ToSexprOfSlices(dslRequest),
                       Version |-> <<"1">>,
                       EntitiesAdded |-> Len(req.Entities),
                       ResourcesAdded |-> Len(req.Products) + Len(req.Resources),
                       FlowsGenerated |-> 1]])

(* ------------------------------------------------------------------ *)
(* Bounds                                                              *)
(* ------------------------------------------------------------------ *)
MaxClock == 4

\* calls of the manager and the store per run
MaxCalls == 2

\* I/O failures per run
MaxFaults == 1

(* ------------------------------------------------------------------ *)
(* State                                                               *)
(* ------------------------------------------------------------------ *)
\* The goroutines that call Put at the same time, the id they write and
\* the texts they store.
Writers == {1, 2}
RaceId == <<"r1">>
RaceTexts == { <<"A">>, <<"B", "B">> }

\* The goroutines that call Parse at the same time, and what each call
\* allocates: pp.p.ParseString returns a new root, sexprToRequest a new
\* Request.  Slot 0 is of no call.
ParseCalls == {1, 2}
Slots == {"root", "req"} \X ({0} \cup ParseCalls)

\* One root for all the calls, as if the parser kept it in a field.
TreeSlotShared(c) == <<"root", 0>>

TreeSlot(c) == <<"root", c>>
DocSlot(c) == <<"req", c>>

ConcurrentTexts ==
    { RequestText(<<>>), TimesText(<<>>), OneEntityText, WrongHeadText, UnterminatedText }

VARIABLES
    op,        \* the call that ran last
    clock,     \* time.Now(), in half seconds
    origin,    \* where doc comes from: "none", "parsed" or "built"
    input,     \* the text of the Parse call
    result,    \* what that call returned: kind and document
    doc,       \* the Request at hand: parsed or built
    printed,   \* what the last ToSexpr call on doc returned
    prints,    \* every text ToSexpr has returned for doc
    reparsed,  \* what Parse returned for the printed text
    files,     \* the files under the store's base directory
    ret,       \* what the last manager or store call returned
    callId,    \* the id argument of that call
    handed,    \* the text the last CreateRequest handed to Put
    updated,   \* the document the last CreateRequest printed
    lastPut,   \* (id, version) -> text of the last Put, when it succeeded
    lastOk,    \* id -> version and text of the last Put that succeeded
    calls,     \* manager and store calls so far
    faults,    \* I/O failures so far
    genReq,    \* the GenerateRequest of the Generate call
    genRet,    \* what that call returned
    parsePc,   \* concurrent Parse calls: where each call is
    parseText, \* the text of each call
    parseAt,   \* the time each call started
    parseNow,  \* the time.Now() each call read
    heap,      \* what the calls allocated: a root and a Request per slot
    returned,  \* what each call returned, as it was when it returned
    putPc,     \* concurrent Put calls: where each call is
    putArgs,   \* the version and the text of each call
    readPc,    \* the GetLatest call that runs between them: where it is
    readVer,   \* the version it read from the latest file
    readRet    \* what it returned

codecVars == <<origin, input, result, doc, printed, prints, reparsed>>
storeVars == <<files, ret, callId, handed, updated, lastPut, lastOk, calls, faults>>
genVars == <<genReq, genRet>>
parseVars == <<parsePc, parseText, parseAt, parseNow, heap, returned>>
raceVars == <<putPc, putArgs, readPc, readVer, readRet>>
otherVars == <<genVars, parseVars, raceVars>>
vars == <<op, clock, codecVars, storeVars, otherVars>>

NoResult == [kind |-> "none", doc |-> NilRequest]
NoText == [kind |-> "none", text |-> <<>>]

Init ==
    /\ op = "init"
    /\ clock = 1
    /\ origin = "none"
    /\ input = <<>>
    /\ result = NoResult
    /\ doc = NilRequest
    /\ printed = NoText
    /\ prints = {}
    /\ reparsed = NoResult
    /\ files = EmptyMap
    /\ ret = NoRet
    /\ callId = <<>>
    /\ handed = <<>>
    /\ updated = NilRequest
    /\ lastPut = EmptyMap
    /\ lastOk = EmptyMap
    /\ calls = 0
    /\ faults = 0
    /\ genReq = GenerateRequest(<<>>, <<>>, <<>>, <<>>)
    /\ genRet = NoGenerated
    /\ parsePc = [c \in ParseCalls |-> "idle"]
    /\ parseText = [c \in ParseCalls |-> <<>>]
    /\ parseAt = [c \in ParseCalls |-> 0]
    /\ parseNow = [c \in ParseCalls |-> 0]
    /\ heap = [slot \in Slots |-> IF slot[1] = "root" THEN NilNode ELSE NilRequest]
    /\ returned = [c \in ParseCalls |-> NoResult]
    /\ putPc = [w \in Writers |-> "idle"]
    /\ putArgs = [w \in Writers |-> [version |-> <<"0">>, text |-> <<>>]]
    /\ readPc = "idle"
    /\ readVer = <<"0">>
    /\ readRet = NotFound

\* time passes between calls
Tick ==
    /\ clock < MaxClock
    /\ clock' = clock + 1
    /\ op' = "Tick"
    /\ UNCHANGED <<codecVars, storeVars, otherVars>>

\* PartParser.Parse(t).  The calls share no state, so a run follows one
\* text, or one built Request, through Parse, ToSexpr and Parse again.
ParseCall(t) ==
    /\ origin = "none"
    /\ op' = "Parse"
    /\ origin' = "parsed"
    /\ input' = t
    /\ result' = Parse(t, clock)
    /\ doc' = result'.doc
    /\ UNCHANGED <<clock, printed, prints, reparsed, storeVars, otherVars>>

\* a caller builds a Request value
Build(d) ==
    /\ origin = "none"
    /\ op' = "Build"
    /\ origin' = "built"
    /\ doc' = d
    /\ UNCHANGED <<clock, input, result, printed, prints, reparsed, storeVars, otherVars>>

HasDoc == origin = "built" \/ (origin = "parsed" /\ result.kind = "ok")

\* print.ToSexpr(doc), its range loops running in some order
PrintCall ==
    /\ HasDoc
    /\ \E ord \in Orders(doc) :
          printed' = IF ToSexprPanics(doc) THEN [kind |-> "panic", text |-> <<>>]
                     ELSE [kind |-> "ok", text |-> ToSexpr(doc, ord)]
    /\ prints' = IF printed'.kind = "ok" THEN prints \cup {printed'.text} ELSE prints
    /\ op' = "ToSexpr"
    /\ reparsed' = NoResult
    /\ UNCHANGED <<clock, origin, input, result, doc, storeVars, otherVars>>

\* PartParser.Parse on the text ToSexpr returned
Reparse ==
    /\ printed.kind = "ok"
    /\ reparsed' = Parse(printed.text, clock)
    /\ op' = "Reparse"
    /\ UNCHANGED <<clock, origin, input, result, doc, printed, prints, storeVars, otherVars>>

(* ------------------------------------------------------------------ *)
(* Manager and store calls                                             *)
(* ------------------------------------------------------------------ *)
\* entities of a GenerateRequest, and products and resources of it
MaxEntities == 2
MaxExtras == 1

SeqsUpTo(S, n) == UNION { [1..k -> S] : k \in 0..n }

GenEntities ==
    { ClientEntity(<<"le", ":", "A">>, <<"Acme">>, <<"sicav">>, <<"LegalEntity">>,
                   <<"LEI1">>, <<"LU">>, <<>>),
      ClientEntity(<<"p", ".", "1">>, <<"Bob">>, <<"custodian">>, <<"Individual">>,
                   <<>>, <<>>, <<MapEntry(<<"role">>, TRUE, <<"owner">>)>>),
      ClientEntity(<<"e3">>, <<"Man Co">>, <<"management-company">>, <<"LegalEntity">>,
                   <<>>, <<"IE">>, <<MapEntry(<<"staff">>, FALSE, <<>>)>>) }
GenProducts ==
    { ProductSpec(<<"prod", ":", "c">>, <<"custody">>, <<"EUR">>),
      ProductSpec(<<"rep">>, <<"reporting">>, <<>>) }
GenResources ==
    { ResourceSpec(<<"acct">>, <<"Account">>, << <<"le", ":", "A">> >>,
                   <<MapEntry(<<"tier">>, TRUE, <<"gold">>)>>),
      ResourceSpec(<<"safe">>, <<"CustodySafekeeping">>, <<>>, <<>>) }
GenerateRequests ==
    { GenerateRequest(id, es, ps, rs) :
        id \in { <<>>, <<"r1">> }, es \in SeqsUpTo(GenEntities, MaxEntities),
        ps \in SeqsUpTo(GenProducts, MaxExtras), rs \in SeqsUpTo(GenResources, MaxExtras) }

Ids == { <<"r1">>, <<"r2">> }
Versions == { <<"1">>, <<"2">> }
StoreTexts == { <<"A">>, <<"B">> }

\* A template with its own id, version and creation time, and two
\* entities; one without a :meta section; one in the grammar's shape.
PairText ==
    RequestText(
        MetaSection(P(<<"request-id">> \o Q(<<"zz">>)) \o P(<<"version">> \o Q(<<"7">>))
                    \o P(<<"created-at">> \o Q(<<DatePrefix, "0", "Z">>)))
        \o OrchSection(
              P(Kw("entities")
                \o P(EntityClause("e1", "LegalEntity", P(<<"name">> \o Q(<<"Acme">>)))
                     \o EntityClause("e2", "Person", P(<<"name">> \o Q(<<"Bob">>)))))))

TemplatePool == { RequestText(<<>>), PairText, EndToEndText }

MapDrop(m, k) == [x \in (DOMAIN m) \ {k} |-> m[x]]

\* The outcomes the fault budget allows.
Outcomes == IF faults < MaxFaults THEN PutOutcomes ELSE { "ok" }

\* The bookkeeping of a write; outcome "none" is a call that never
\* reached Put.
Record(id, version, content, outcome) ==
    /\ lastPut' = IF outcome = "ok" THEN MapPut(lastPut, <<id, version>>, content)
                  ELSE IF outcome = "none" THEN lastPut
                  ELSE MapDrop(lastPut, <<id, version>>)
    /\ lastOk' = IF outcome = "ok"
                 THEN MapPut(lastOk, id, [version |-> version, text |-> content])
                 ELSE lastOk
    /\ faults' = IF outcome \in {"ok", "none"} THEN faults ELSE faults + 1
    /\ calls' = calls + 1

\* FileStore.Put(id, version, content)
PutCall(id, version, content) ==
    /\ calls < MaxCalls
    /\ \E outcome \in Outcomes :
          /\ files' \in Put(files, id, version, content, outcome)
          /\ ret' = Ret(IF outcome = "ok" THEN "ok" ELSE "error", <<"0">>, <<>>, <<>>)
          /\ Record(id, version, content, outcome)
    /\ op' = "Put"
    /\ callId' = id
    /\ UNCHANGED <<clock, codecVars, handed, updated, otherVars>>

\* FileStore.Get(id, version)
GetCall(id, version) ==
    /\ calls < MaxCalls
    /\ calls' = calls + 1
    /\ LET g == Get(files, id, version)
       IN  ret' = Ret(IF g.ok THEN "ok" ELSE "error", g.version, <<>>, g.text)
    /\ op' = "Get"
    /\ callId' = id
    /\ UNCHANGED <<clock, codecVars, files, handed, updated, lastPut, lastOk, faults, otherVars>>

\* FileStore.GetLatest(id)
GetLatestCall(id) ==
    /\ calls < MaxCalls
    /\ calls' = calls + 1
    /\ LET g == GetLatest(files, id)
       IN  ret' = Ret(IF g.ok THEN "ok" ELSE "error", g.version, <<>>, g.text)
    /\ op' = "GetLatest"
    /\ callId' = id
    /\ UNCHANGED <<clock, codecVars, files, handed, updated, lastPut, lastOk, faults, otherVars>>

\* Manager.GetCurrentText(id), which is FileStore.GetLatest(id)
GetCurrentTextCall(id) ==
    /\ calls < MaxCalls
    /\ calls' = calls + 1
    /\ LET g == GetLatest(files, id)
       IN  ret' = Ret(IF g.ok THEN "ok" ELSE "error", g.version, <<>>, g.text)
    /\ op' = "GetCurrentText"
    /\ callId' = id
    /\ UNCHANGED <<clock, codecVars, files, handed, updated, lastPut, lastOk, faults, otherVars>>

\* Manager.CreateRequest(id, template), all of it: Parse, the Meta update,
\* ToSexpr, Put and the hash.  time.Now() is read once inside Parse, at
\* clk, and once after it.  The result is every way the call can end from
\* the file system fs: the time it ends, the text handed to Put, the file
\* system left behind, what is returned and how Put went.
CreateRequestRuns(fs, clk, id, template, outcomes) ==
    With(Parse(template, clk), LAMBDA r :
        IF r.kind # "ok"
        THEN { [clock |-> clk, updated |-> NilRequest, handed |-> <<>>, files |-> fs,
                ret |-> Ret(IF r.kind = "panic" THEN "panic" ELSE "error", <<"0">>, <<>>, <<>>),
                outcome |-> "none"] }
        ELSE UNION {
               With(UpdateMeta(r.doc, id, now), LAMBDA req :
                   UNION {
                     With(ToSexpr(req, ord), LAMBDA txt :
                         UNION {
                           { [clock |-> now, updated |-> req, handed |-> txt, files |-> f,
                              ret |-> IF o = "ok" THEN Ret("ok", <<"1">>, hash(txt), <<>>)
                                      ELSE Ret("error", <<"0">>, <<>>, <<>>),
                              outcome |-> o] : f \in Put(fs, id, <<"1">>, txt, o) }
                           : o \in outcomes })
                     : ord \in Orders(req) })
               : now \in { clk, IF clk < MaxClock THEN clk + 1 ELSE clk } })

CreateRequest(id, template) ==
    /\ calls < MaxCalls
    /\ op' = "CreateRequest"
    /\ callId' = id
    /\ \E run \in CreateRequestRuns(files, clock, id, template, Outcomes) :
          /\ clock' = run.clock
          /\ handed' = run.handed
          /\ updated' = run.updated
          /\ files' = run.files
          /\ ret' = run.ret
          /\ Record(id, <<"1">>, run.handed, run.outcome)
    /\ UNCHANGED <<codecVars, otherVars>>

\* Manager.CreateRequest of part_003: as above up to the call of Put,
\* whose error it drops; it then returns version 1 and the hash.
CreateRequestRunsUnchecked(fs, clk, id, template, outcomes) ==
    { IF run.outcome = "none" THEN run
      ELSE [run EXCEPT !.ret = Ret("ok", <<"1">>, hash(run.handed), <<>>)]
      : run \in CreateRequestRuns(fs, clk, id, template, outcomes) }

CreateRequestUnchecked(id, template) ==
    /\ calls < MaxCalls
    /\ op' = "CreateRequest"
    /\ callId' = id
    /\ \E run \in CreateRequestRunsUnchecked(files, clock, id, template, Outcomes) :
          /\ clock' = run.clock
          /\ handed' = run.handed
          /\ updated' = run.updated
          /\ files' = run.files
          /\ ret' = run.ret
          /\ Record(id, <<"1">>, run.handed, run.outcome)
    /\ UNCHANGED <<codecVars, otherVars>>

\* Generator.Generate(req).  The Generator keeps nothing between calls,
\* so a run follows one call.
GenerateCall(req) ==
    /\ genRet.kind = "none"
    /\ op' = "Generate"
    /\ genReq' = req
    /\ genRet' = Generate(req, clock)
    /\ UNCHANGED <<clock, codecVars, storeVars, parseVars, raceVars>>

\* PartParser.Parse(t) is called by goroutine c.
ParseStart(c, t) ==
    /\ parsePc[c] = "idle"
    /\ parsePc' = [parsePc EXCEPT ![c] = "called"]
    /\ parseText' = [parseText EXCEPT ![c] = t]
    /\ parseAt' = [parseAt EXCEPT ![c] = clock]
    /\ op' = "ParseStart"
    /\ UNCHANGED <<clock, codecVars, storeVars, genVars, raceVars, parseNow, heap, returned>>

\* root, err := pp.p.ParseString("", text); an error is returned at once
ParseStringStep(c) ==
    /\ parsePc[c] = "called"
    /\ LET root == ParseString(parseText[c])
       IN  IF root.kind = "ok"
           THEN /\ heap' = [heap EXCEPT ![TreeSlot(c)] = root.node]
                /\ parsePc' = [parsePc EXCEPT ![c] = "parsed"]
                /\ UNCHANGED returned
           ELSE /\ parsePc' = [parsePc EXCEPT ![c] = "done"]
                /\ returned' = [returned EXCEPT ![c] = [kind |-> root.kind, doc |-> NilRequest]]
                /\ UNCHANGED heap
    /\ op' = "ParseString"
    /\ UNCHANGED <<clock, codecVars, storeVars, genVars, raceVars, parseText, parseAt, parseNow>>

\* return sexprToRequest(root), which builds the Request of this call
MapStep(c) ==
    /\ parsePc[c] = "parsed"
    /\ LET r == sexprToRequest(heap[TreeSlot(c)], clock)
       IN  /\ heap' = [heap EXCEPT ![DocSlot(c)] = r.doc]
           /\ returned' = [returned EXCEPT ![c] = r]
    /\ parseNow' = [parseNow EXCEPT ![c] = clock]
    /\ parsePc' = [parsePc EXCEPT ![c] = "done"]
    /\ op' = "sexprToRequest"
    /\ UNCHANGED <<clock, codecVars, storeVars, genVars, raceVars, parseText, parseAt>>

\* What a step of a concurrent store call leaves alone.
RaceFrame ==
    UNCHANGED <<clock, codecVars, ret, callId, handed, updated, lastPut, lastOk, calls, faults,
                genVars, parseVars>>

\* FileStore.Put(RaceId, version, text) is called by goroutine w.
PutStart(w, version, text) ==
    /\ putPc[w] = "idle"
    /\ putPc' = [putPc EXCEPT ![w] = "called"]
    /\ putArgs' = [putArgs EXCEPT ![w] = [version |-> version, text |-> text]]
    /\ op' = "PutStart"
    /\ RaceFrame
    /\ UNCHANGED <<files, readPc, readVer, readRet>>

\* os.MkdirAll, then os.WriteFile(verPath) up to the open of the file
PutOpenVersion(w) ==
    /\ putPc[w] = "called"
    /\ files' = OpenFile(files, verPath(RaceId, putArgs[w].version))
    /\ putPc' = [putPc EXCEPT ![w] = "versionOpen"]
    /\ op' = "PutOpenVersion"
    /\ RaceFrame
    /\ UNCHANGED <<putArgs, readPc, readVer, readRet>>

\* the write and the close of os.WriteFile(verPath)
PutWriteVersion(w) ==
    /\ putPc[w] = "versionOpen"
    /\ files' = WriteAll(files, verPath(RaceId, putArgs[w].version), putArgs[w].text)
    /\ putPc' = [putPc EXCEPT ![w] = "versionWritten"]
    /\ op' = "PutWriteVersion"
    /\ RaceFrame
    /\ UNCHANGED <<putArgs, readPc, readVer, readRet>>

\* os.WriteFile(latestPath) up to the open of the file
PutOpenLatest(w) ==
    /\ putPc[w] = "versionWritten"
    /\ files' = OpenFile(files, latestPath(RaceId))
    /\ putPc' = [putPc EXCEPT ![w] = "latestOpen"]
    /\ op' = "PutOpenLatest"
    /\ RaceFrame
    /\ UNCHANGED <<putArgs, readPc, readVer, readRet>>

\* the write and the close of os.WriteFile(latestPath); Put returns nil
PutWriteLatest(w) ==
    /\ putPc[w] = "latestOpen"
    /\ files' = WriteAll(files, latestPath(RaceId), LatestContent(putArgs[w].version))
    /\ putPc' = [putPc EXCEPT ![w] = "done"]
    /\ op' = "PutWriteLatest"
    /\ RaceFrame
    /\ UNCHANGED <<putArgs, readPc, readVer, readRet>>

\* FileStore.GetLatest(RaceId) up to the version it parsed from the
\* latest file; it returns an error when the file is missing or holds no
\* number.
ReadLatest ==
    /\ readPc = "idle"
    /\ LET v == IF latestPath(RaceId) \in DOMAIN files
                THEN ParseUint(TrimSpace(files[latestPath(RaceId)]))
                ELSE [v |-> <<"0">>, err |-> "missing"]
       IN  IF v.err = ""
           THEN readPc' = "versionRead" /\ readVer' = v.v /\ UNCHANGED readRet
           ELSE readPc' = "done" /\ readRet' = NotFound /\ UNCHANGED readVer
    /\ op' = "ReadLatest"
    /\ RaceFrame
    /\ UNCHANGED <<files, putPc, putArgs>>

\* os.ReadFile(verPath(id, v)) and the return of GetLatest
ReadVersion ==
    /\ readPc = "versionRead"
    /\ readRet' = Get(files, RaceId, readVer)
    /\ readPc' = "done"
    /\ op' = "GetLatest"
    /\ RaceFrame
    /\ UNCHANGED <<files, putPc, putArgs, readVer>>

Next ==
    \/ Tick
    \/ \E t \in TextPool : ParseCall(t)
    \/ \E d \in DocPool : Build(d)
    \/ PrintCall
    \/ Reparse

Spec == Init /\ [][Next]_vars

NextStore ==
    \/ \E id \in Ids, v \in Versions, t \in StoreTexts : PutCall(id, v, t)
    \/ \E id \in Ids, v \in Versions : GetCall(id, v)
    \/ \E id \in Ids : GetLatestCall(id)

SpecStore == Init /\ [][NextStore]_vars

NextManager ==
    \/ \E id \in Ids, t \in TemplatePool : CreateRequest(id, t)
    \/ \E id \in Ids : GetCurrentTextCall(id)

SpecManager == Init /\ [][NextManager]_vars

\* Two goroutines call Put on one id while a third calls GetLatest.
NextRace ==
    \/ \E w \in Writers, v \in Versions, t \in RaceTexts : PutStart(w, v, t)
    \/ \E w \in Writers : PutOpenVersion(w)
    \/ \E w \in Writers : PutWriteVersion(w)
    \/ \E w \in Writers : PutOpenLatest(w)
    \/ \E w \in Writers : PutWriteLatest(w)
    \/ ReadLatest
    \/ ReadVersion

SpecRace == Init /\ [][NextRace]_vars

\* Two goroutines call Parse on one PartParser.
NextParsers ==
    \/ Tick
    \/ \E c \in ParseCalls, t \in ConcurrentTexts : ParseStart(c, t)
    \/ \E c \in ParseCalls : ParseStringStep(c)
    \/ \E c \in ParseCalls : MapStep(c)

SpecParsers == Init /\ [][NextParsers]_vars

NextGenerator ==
    \/ Tick
    \/ \E req \in GenerateRequests : GenerateCall(req)

SpecGenerator == Init /\ [][NextGenerator]_vars

\* The manager in both of its versions: part_004 and part_003.
NextManagers ==
    \/ \E id \in Ids, t \in TemplatePool : CreateRequest(id, t)
    \/ \E id \in Ids, t \in TemplatePool : CreateRequestUnchecked(id, t)
    \/ \E id \in Ids : GetCurrentTextCall(id)

SpecManagers == Init /\ [][NextManagers]_vars

C2_PrinterDeterminism == Cardinality(prints) <= 1

\* C3: for the grammar-conformant text whose clauses are direct children
\* of their section, Parse returns a Document with request id r1,
\* version 1 and exactly the entity e1 of type LegalEntity with the
\* attribute name = "Acme".
C3_DirectChildren ==
    (op = "Parse" /\ input = EndToEndText) =>
        /\ result.kind = "ok"
        /\ ~doc.Meta.isNil
        /\ doc.Meta.RequestID = <<"r1">>
        /\ doc.Meta.Version = <<"1">>
        /\ DOMAIN doc.Orchestrator.Entities = { <<"e1">> }
        /\ doc.Orchestrator.Entities[<<"e1">>].ID = <<"e1">>
        /\ doc.Orchestrator.Entities[<<"e1">>].Typ = <<"LegalEntity">>
        /\ DOMAIN doc.Orchestrator.Entities[<<"e1">>].Attrs = { <<"name">> }
        /\ doc.Orchestrator.Entities[<<"e1">>].Attrs[<<"name">>].Value = GoVal("string", <<"Acme">>)

\* The input classes of C4, read off the text alone.
Plain(t) == \A i \in 1..Len(t) : t[i] # "\\" /\ t[i] # ";"
QuotesBefore(t, i) == Cardinality({ j \in 1..(i - 1) : t[j] = "\"" })
CountOutside(t, c) == Cardinality({ i \in 1..Len(t) : t[i] = c /\ QuotesBefore(t, i) % 2 = 0 })
UnterminatedString(t) == Plain(t) /\ QuotesBefore(t, Len(t) + 1) % 2 = 1
UnmatchedOpen(t) ==
    /\ Plain(t)
    /\ QuotesBefore(t, Len(t) + 1) % 2 = 0
    /\ sexprLexer(t).ok
    /\ CountOutside(t, "(") > CountOutside(t, ")")
NotARequest(t) ==
    /\ ParseString(t).kind = "ok"
    /\ LET root == ParseString(t).node
       IN  ~(/\ IsList(root)
             /\ Len(root.els) > 0
             /\ root.els[1].k = "Sym"
             /\ Str(root.els[1].text) = "onboarding-request")

C5_ParseNeverAborts == op = "Parse" => result.kind # "panic"

\* The numeric atoms by what they read as.
UnsignedAtoms == { <<"4", "2">>, <<"0", "0", "7">>, MaxUint64 }
DecimalAtoms == { <<"3", ".", "1", "4">>, BigNumber }

\* C6: value classification.  An attribute value given as a numeric atom
\* that reads as an unsigned integer is a uint64, as another decimal a
\* float64, as the bare true or false a bool, and as any other bare
\* symbol a value that differs from the String value with the same text.
C6_ValueClassification ==
    \A a \in ValueAtoms :
        (op = "Parse" /\ input = ValueText(a)) =>
            /\ result.kind = "ok"
            /\ LET attrs == doc.Orchestrator.Entities[<<"e1">>].Attrs
                   v == attrs[<<"a">>].Value
               IN  /\ a \in UnsignedAtoms => v.t = "uint64"
                   /\ a \in DecimalAtoms => v.t = "float64"
                   /\ a \in BoolAtoms => v.t = "bool"
                   /\ a \in SymbolAtoms => v # attrs[<<"b">>].Value

\* C7: ToSexpr returns a text for every well-formed Request, parsed or
\* built by a caller.
C7_PrinterTotal == (op = "ToSexpr" /\ WellFormed(doc)) => printed.kind = "ok"

C7_Witness ==
    /\ op = "ToSexpr"
    /\ origin = "built"
    /\ doc = BuiltFourKinds
    /\ WellFormed(doc)
    /\ printed.kind = "ok"

(* ------------------------------------------------------------------ *)
(* Properties: manager (SpecManager) and store (SpecStore)             *)
(* ------------------------------------------------------------------ *)
\* C8: directly after a successful CreateRequest(id, template) the text
\* handed to the store is ToSexpr of the updated document, the hash
\* returned is the tag sha256: followed by the digest of that text, and
\* GetCurrentText(id) returns version 1 and that text.
C8_CreateStoresPrinted ==
    (op = "CreateRequest" /\ ret.kind = "ok") =>
        LET g == GetLatest(files, callId)
        IN  /\ \E ord \in Orders(updated) : handed = ToSexpr(updated, ord)
            /\ ret.version = <<"1">>
            /\ ret.hash = <<"sha256:">> \o Sha256Hex(handed)
            /\ g.ok
            /\ g.version = <<"1">>
            /\ g.text = handed
            /\ hash(g.text) = ret.hash

C8_Witness ==
    /\ op = "CreateRequest"
    /\ ret.kind = "ok"
    /\ calls = 2
    /\ Len(handed) > 0
    /\ GetLatest(files, callId).text = handed

\* C9: after any sequence of successful CreateRequest calls, the text
\* GetCurrentText returns for a stored id parses: ValidateText lists no
\* issue for it.
C9_StoredTextParses ==
    faults = 0 =>
        \A id \in Ids :
            GetLatest(files, id).ok => ValidateText(GetLatest(files, id).text, clock) = <<>>

\* C10: store round trip.  Get(id, v) returns the text of the last
\* successful Put(id, v, text) for as long as no later Put uses (id, v).
C10_StoreRoundTrip ==
    \A k \in DOMAIN lastPut :
        Get(files, k[1], k[2]) = [ok |-> TRUE, version |-> k[2], text |-> lastPut[k]]

C10_Witness ==
    /\ op = "Put"
    /\ ret.kind = "ok"
    /\ calls = 2
    /\ Cardinality(DOMAIN lastPut) = 2
    /\ \A k \in DOMAIN lastPut : Get(files, k[1], k[2]).text = lastPut[k]

(* ------------------------------------------------------------------ *)
(* Properties: mapper and printer (Spec)                               *)
(* ------------------------------------------------------------------ *)
\* The text has a clause headed by name.
HasClause(t, name) == \E i \in 1..(Len(t) - 1) : t[i] = "(" /\ t[i + 1] = name

\* C11: every Document Parse returns with a Meta has updated_at >=
\* created_at, and a timestamp whose clause is absent from the text is the
\* time of the call.
C11_MetaTimestamps ==
    (op = "Parse" /\ result.kind = "ok" /\ ~doc.Meta.isNil) =>
        /\ doc.Meta.UpdatedAt >= doc.Meta.CreatedAt
        /\ ~HasClause(input, "created-at") => doc.Meta.CreatedAt = clock
        /\ ~HasClause(input, "updated-at") => doc.Meta.UpdatedAt = clock

C13_InitialInStates ==
    (op = "Parse" /\ result.kind = "ok") =>
        LET lc == doc.Orchestrator.Lifecycle
        IN  /\ lc.Initial # <<>> => \E i \in 1..Len(lc.States) : lc.States[i] = lc.Initial
            /\ \A sp \in LifecycleSpecs :
                  input = LifecycleText(sp) => lc.States = [i \in 1..Len(sp.sts) |-> <<sp.sts[i]>>]

\* C14: every Step of a Document Parse returns has exactly one of Task,
\* Gate, Fork and Join populated, the one its Kind names, and each task,
\* gate, fork or join clause of a flow yields one Step, in declaration
\* order.
C14_StepVariants ==
    (op = "Parse" /\ result.kind = "ok") =>
        /\ WellFormed(doc)
        /\ \A ks \in StepKindSeqs :
              input = StepsText(ks) =>
                  LET steps == doc.Orchestrator.Flows[<<"main">>].Steps
                  IN  /\ Len(steps) = Len(ks)
                      /\ \A i \in 1..Len(ks) : Str(steps[i].Kind) = ks[i]

\* The id a clause maps to.
IdOf(w) == IF w = "" THEN <<>> ELSE <<w>>

\* C15: the Entities of a Document Parse returns hold one Entity per id,
\* filed under its id; of several entity clauses with the same id, the
\* clauses without :id among them, the last one declared is retained.
C15_EntityIdsUnique ==
    (op = "Parse" /\ result.kind = "ok") =>
        LET ents == doc.Orchestrator.Entities
        IN  /\ \A k \in DOMAIN ents : ents[k].ID = k
            /\ \A ids \in EntityIdSeqs :
                  input = EntitiesText(ids) =>
                      /\ DOMAIN ents = { IdOf(ids[i]) : i \in 1..Len(ids) }
                      /\ \A i \in 1..Len(ids) :
                            (\A j \in (i + 1)..Len(ids) : ids[j] # ids[i]) =>
                                ents[IdOf(ids[i])] = Entity(IdOf(ids[i]), TypeOf(i), EmptyMap)

C15_Witness ==
    /\ op = "Parse"
    /\ input = EntitiesText(<<"", "e1", "">>)
    /\ result.kind = "ok"
    /\ DOMAIN doc.Orchestrator.Entities = { <<>>, <<"e1">> }
    /\ doc.Orchestrator.Entities[<<>>].Typ = TypeOf(3)

\* C16: a keyword field (:id, :type, :on, :op) absent from an entity,
\* resource, flow, task or gate clause maps to the empty string: Parse
\* succeeds and every other field of the Document is what it is with the
\* field present.
C16_AbsentKeywordEmpty ==
    \A d \in DropSets :
        (op = "Parse" /\ input = KeywordText(d)) =>
            /\ result.kind = "ok"
            /\ doc = KeywordDoc(d)

C16_Witness ==
    /\ op = "Parse"
    /\ input = KeywordText({"top"})
    /\ result.kind = "ok"
    /\ doc.Orchestrator.Flows[<<"main">>].Steps[1].Task.Op = <<>>
    /\ doc.Orchestrator.Flows[<<"main">>].Steps[1].Task.On = <<"e1">>

\* C17: a section whose head is not :meta, :orchestrator or :catalog,
\* added at any position after the head symbol, does not make Parse fail
\* and leaves the Document it returns unchanged.
C17_UnknownSectionIgnored ==
    \A k \in 0..Len(BaseSections), x \in ExtraSections :
        (op = "Parse" /\ input = WithSection(k, x)) =>
            /\ result.kind = "ok"
            /\ result = Parse(BaseText, clock)

C17_Witness ==
    /\ op = "Parse"
    /\ \E x \in ExtraSections : input = WithSection(1, x)
    /\ result.kind = "ok"
    /\ doc.Meta.RequestID = <<"r1">>
    /\ doc.Meta.CreatedAt = 3
    /\ DOMAIN doc.Orchestrator.Entities = { <<"e1">> }

\* sub is a run of consecutive units of text.
Contains(text, sub) ==
    \E i \in 1..(Len(text) - Len(sub) + 1) : SubSeq(text, i, i + Len(sub) - 1) = sub

DefaultStatesClause ==
    <<"(", "states", " ", "draft", " ", "validated", " ", "compiled", " ", "executing",
      " ", "completed", " ", "failed", ")">>
InitialClause(st) == <<"(", "initial", " ">> \o st \o <<")">>
EmptyTransitionsClause == <<"(", "transitions", ")">>

RECURSIVE StatesWords(_)
StatesWords(sts) == IF sts = <<>> THEN <<>> ELSE <<" ">> \o Head(sts) \o StatesWords(Tail(sts))

ValueOfToken(p) ==
    IF ParseString(p).kind = "ok" /\ IsAtom(ParseString(p).node)
    THEN atomValue(ParseString(p).node) ELSE NilVal

\* C19: printValue prints a String value double-quoted and an unsigned
\* integer, a decimal, a boolean and a symbol in its literal form (42 as
\* 42, 3.14 as 3.14, true as true, the symbol draft as the bare word
\* draft), and the mapper reads the printed token back as the same Value.
C19_ValuePrinting ==
    \A a \in ValueAtoms :
        (op = "ToSexpr" /\ origin = "parsed" /\ input = ValueText(a) /\ printed.kind = "ok") =>
            LET attrs == doc.Orchestrator.Entities[<<"e1">>].Attrs
                pa == printValue(attrs[<<"a">>].Value)
                pb == printValue(attrs[<<"b">>].Value)
            IN  /\ Contains(printed.text, <<"(", "a", " ">> \o pa \o <<")">>)
                /\ Contains(printed.text, <<"(", "b", " ">> \o pb \o <<")">>)
                /\ pb = <<"\"">> \o a \o <<"\"">>
                /\ a \in UnsignedAtoms => pa = StripZeros(a)
                /\ a = <<"3", ".", "1", "4">> => pa = a
                /\ a \in BoolAtoms \cup SymbolAtoms => pa = a
                /\ ValueOfToken(pa) = attrs[<<"a">>].Value
                /\ ValueOfToken(pb) = attrs[<<"b">>].Value

\* C20: whitespace or a ';' line comment put between two tokens of a text
\* changes neither whether Parse succeeds nor the Document it returns; the
\* tokens left after eliding Whitespace and Comment are the same.
C20_WhitespaceElided ==
    \A b \in FilledBases, k \in 1..2, x \in Fillers :
        (op = "Parse" /\ input = Filled(b, k, x)) =>
            /\ Elided(sexprLexer(input).toks) = Elided(sexprLexer(b).toks)
            /\ (result.kind = "ok") = (Parse(b, clock).kind = "ok")
            /\ result.doc = Parse(b, clock).doc

\* C21: Parse returns one root node for the whole input: it fails with a
\* syntax error when a token other than whitespace or a comment follows
\* the complete top-level node, and when a ')' has no matching '('.
C21_OneRoot ==
    op = "Parse" =>
        /\ input \in TrailingTexts \cup UnmatchedCloseTexts =>
              (result.kind = "syntax" /\ doc = NilRequest)
        /\ result.kind \in {"ok", "mapping"} =>
              /\ ParseString(input).kind = "ok"
              /\ CountOutside(input, "(") = CountOutside(input, ")")

C21_Witness ==
    /\ op = "Parse"
    /\ input = RequestText(<<>>) \o P(<<"a">>)
    /\ result.kind = "syntax"

\* C22: lexer totality.  Every text built from the characters of the
\* grammar text (parentheses, quoted strings, letters, digits, '_', '-',
\* ':', '.', comments and whitespace) tokenizes without a lexical error,
\* a number with a leading '-' and a word that starts with '_' included.
C22_LexerTotal ==
    (op = "Parse" /\ input \in PieceTexts) => (sexprLexer(input).ok /\ result.kind # "lex")

(* ------------------------------------------------------------------ *)
(* Properties: store and manager, order of the calls                   *)
(* ------------------------------------------------------------------ *)
\* C24: after any sequence of successful Put calls, GetLatest(id) returns
\* the version and the text of the most recent Put for that id, also when
\* an earlier Put for the id stored a higher version number.
C24_LatestFollowsWrites ==
    faults = 0 =>
        \A id \in DOMAIN lastOk :
            GetLatest(files, id) =
                [ok |-> TRUE, version |-> lastOk[id].version, text |-> lastOk[id].text]

\* Version 2 was stored first, version 1 after it, and 1 is the latest.
C24_Witness ==
    /\ op = "Put"
    /\ ret.kind = "ok"
    /\ faults = 0
    /\ <<callId, <<"2">>>> \in DOMAIN lastPut
    /\ lastOk[callId].version = <<"1">>
    /\ GetLatest(files, callId).version = <<"1">>
    /\ GetLatest(files, callId).text # lastPut[<<callId, <<"2">>>>]

\* C28: a Put on one id changes nothing for any other id.  For every id2
\* different from the id of the Put, Get(id2, v) and GetLatest(id2) return
\* the same before and after the Put, whether it succeeds or fails.
C28_PutFrame ==
    [][op' = "Put" =>
          \A id2 \in Ids \ {callId'} :
              /\ GetLatest(files', id2) = GetLatest(files, id2)
              /\ \A v \in Versions : Get(files', id2, v) = Get(files, id2, v)]_vars

\* A Put that failed after it had truncated a file of its own id, while
\* another id has a stored text.
C28_Witness ==
    /\ op = "Put"
    /\ ret.kind = "error"
    /\ \E v \in Versions : Get(files, callId, v) = [ok |-> TRUE, version |-> v, text |-> <<>>]
    /\ \E id2 \in Ids \ {callId} : GetLatest(files, id2).ok /\ GetLatest(files, id2).text # <<>>

\* C26: CreateRequest reports success exactly when the text was stored.
\* A call whose template does not parse returns an error with version 0
\* and an empty hash and leaves the store as it was; a call whose Put fails
\* returns an error with version 0 and an empty hash; a call that returns
\* version 1 and a hash has stored the text it hashed.
C26_SuccessIffStored ==
    [][op' = "CreateRequest" =>
          /\ (ret'.kind = "ok") <=> (handed' # <<>> /\ faults' = faults)
          /\ ret'.kind = "ok" =>
                /\ ret'.version = <<"1">>
                /\ ret'.hash = hash(handed')
                /\ GetLatest(files', callId') =
                       [ok |-> TRUE, version |-> <<"1">>, text |-> handed']
          /\ ret'.kind # "ok" => (ret'.version = <<"0">> /\ ret'.hash = <<>>)
          /\ handed' = <<>> => files' = files]_vars

\* C27: CreateRequest always stores at version 1 with meta.request-id set
\* to its id argument, whatever the template carries.  After any sequence
\* of CreateRequest calls for one id, GetCurrentText(id) returns version 1
\* and the text of the last successful call, and no version of the id
\* holds another text.
C27_AlwaysVersionOne ==
    /\ (op = "CreateRequest" /\ ret.kind = "ok") =>
          /\ updated.Meta.RequestID = callId
          /\ updated.Meta.Version = <<"1">>
          /\ lastOk[callId] = [version |-> <<"1">>, text |-> handed]
    /\ \A id \in DOMAIN lastOk :
          /\ GetLatest(files, id) = [ok |-> TRUE, version |-> <<"1">>, text |-> lastOk[id].text]
          /\ \A v \in Versions :
                Get(files, id, v).ok => Get(files, id, v).text = lastOk[id].text

(* ------------------------------------------------------------------ *)
(* Properties: printer, the lifecycle it prints (Spec)                 *)
(* ------------------------------------------------------------------ *)
\* The words of the first clause of the text that is headed by name.
ClauseWords(text, name) ==
    LET heads == { i \in 1..(Len(text) - 1) : text[i] = "(" /\ text[i + 1] = name }
    IN  IF heads = {} THEN {}
        ELSE LET i == CHOOSE h \in heads : \A g \in heads : h <= g
                 j == CHOOSE c \in (i + 1)..Len(text) :
                          /\ text[c] = ")"
                          /\ \A b \in (i + 1)..(c - 1) : text[b] # ")"
             IN  { text[k] : k \in (i + 2)..(j - 1) } \ { " " }

\* C29: the text ToSexpr prints always names an initial state that is one
\* of the states it prints, for every Document, also for one whose
\* Lifecycle has states and an empty initial.
C29_PrintedInitialInStates ==
    (op = "ToSexpr" /\ printed.kind = "ok") =>
        /\ ClauseWords(printed.text, "initial") # {}
        /\ ClauseWords(printed.text, "initial") \subseteq ClauseWords(printed.text, "states")

(* ------------------------------------------------------------------ *)
(* Properties: generator (SpecGenerator)                               *)
(* ------------------------------------------------------------------ *)
\* The ids of the task and gate clauses of the printed text, in the order
\* of the text.
PrintedStepIds(text) ==
    LET heads == { i \in 1..(Len(text) - 7) :
                      text[i] = "(" /\ text[i + 1] \in {"task", "gate"} /\ text[i + 6] = "\"" }
        head(k) == CHOOSE i \in heads : Cardinality({ j \in heads : j < i }) = k - 1
        close(i) == CHOOSE c \in (i + 7)..Len(text) :
                        text[c] = "\"" /\ \A b \in (i + 7)..(c - 1) : text[b] # "\""
    IN  [k \in 1..Cardinality(heads) |-> SubSeq(text, head(k) + 7, close(head(k)) - 1)]

\* C30: the main flow Generate builds has one verify task per entity in
\* entity order, then one AML screening task per entity in entity order,
\* then the compliance-review gate, then one setup task per resource in
\* resource order: 2*|entities| + 1 + |resources| steps; the printed text
\* lists them in this order.  Generate returns a ValidationError and
\* builds nothing exactly when RequestID is empty or there is no entity.
C30_MainFlowOrder ==
    op = "Generate" =>
        LET n == Len(genReq.Entities)
            ids == [i \in 1..Len(genReq.Products) |-> genReq.Products[i].ID]
                       \o [i \in 1..Len(genReq.Resources) |-> genReq.Resources[i].ID]
            r == Len(ids)
        IN  IF genReq.RequestID = <<>> \/ n = 0
            THEN /\ genRet.kind = "ValidationError"
                 /\ genRet.built = <<>>
                 /\ genRet.response = NoResponse
            ELSE /\ genRet.kind = "ok"
                 /\ Len(genRet.built) = 1
                 /\ Len(genRet.built[1].Orchestrator.Flows) = 1
                 /\ genRet.built[1].Orchestrator.Flows[1].ID = <<"main">>
                 /\ LET steps == genRet.built[1].Orchestrator.Flows[1].Steps
                    IN  /\ Len(steps) = 2 * n + 1 + r
                        /\ \A i \in 1..n :
                              /\ steps[i].Kind = "task"
                              /\ steps[i].Op = <<"verify-entity">>
                              /\ steps[i].Args[1].Value.s = genReq.Entities[i].ID
                              /\ steps[n + i].Kind = "task"
                              /\ steps[n + i].Op = <<"screen-entity">>
                              /\ steps[n + i].Args[1].Value.s = genReq.Entities[i].ID
                        /\ steps[2 * n + 1] = ComplianceGate
                        /\ \A j \in 1..r :
                              /\ steps[2 * n + 1 + j].Kind = "task"
                              /\ steps[2 * n + 1 + j].On = ids[j]
                              /\ steps[2 * n + 1 + j].Args[1].Value.s = ids[j]
                        /\ PrintedStepIds(genRet.response.DSL) =
                              [i \in 1..Len(steps) |-> steps[i].ID]

\* Two entities, a product and a resource: six tasks around the gate.
C30_Witness ==
    /\ op = "Generate"
    /\ genRet.kind = "ok"
    /\ Len(genReq.Entities) = 2
    /\ genReq.Entities[1] # genReq.Entities[2]
    /\ Len(genReq.Products) = 1
    /\ Len(genReq.Resources) = 1
    /\ Len(genRet.built[1].Orchestrator.Flows[1].Steps) = 7
    /\ genRet.built[1].Orchestrator.Flows[1].Steps[5] = ComplianceGate

(* ------------------------------------------------------------------ *)
(* Properties: concurrent Parse calls (SpecParsers)                    *)
(* ------------------------------------------------------------------ *)
\* C23: Parse calls share no mutable state.  Under every interleaving of
\* the steps of two Parse calls on one parser, a call returns what it
\* returns when it runs alone at the time it read the clock, and the
\* Request it returned stays as it was returned whatever the other call
\* does.
C23_ParseCallsIndependent ==
    \A c \in ParseCalls :
        parsePc[c] = "done" =>
            /\ returned[c] = Parse(parseText[c], parseNow[c])
            /\ returned[c].kind = "ok" => heap[DocSlot(c)] = returned[c].doc

\* Call 2 ran from start to end while call 1 was under way, on another
\* text, and both returned a Request.
C23_Witness ==
    /\ parsePc[1] = "done"
    /\ parsePc[2] = "done"
    /\ parseAt[1] < parseAt[2]
    /\ parseNow[2] < parseNow[1]
    /\ parseText[1] # parseText[2]
    /\ returned[1].kind = "ok"
    /\ returned[2].kind = "ok"
    /\ heap[DocSlot(1)] # heap[DocSlot(2)]

(* ------------------------------------------------------------------ *)
(* Properties: concurrent Put calls on one id (SpecRace)               *)
(* ------------------------------------------------------------------ *)
\* C25: under every interleaving of the file-write steps of concurrent
\* Put calls on one id and of a GetLatest that runs between them, the
\* latest pointer, once it exists, names a version whose file exists, and
\* GetLatest returns a (version, text) pair that was passed together to
\* some Put call.
C25_ConcurrentPuts ==
    /\ latestPath(RaceId) \in DOMAIN files =>
          /\ ParseUint(TrimSpace(files[latestPath(RaceId)])).err = ""
          /\ verPath(RaceId, ParseUint(TrimSpace(files[latestPath(RaceId)])).v) \in DOMAIN files
    /\ (readPc = "done" /\ readRet.ok) =>
          \E w \in Writers :
              /\ putPc[w] # "idle"
              /\ putArgs[w] = [version |-> readRet.version, text |-> readRet.text]

====
